---- MODULE Spec2Model ----
(***************************************************************************)
(* Model of derin's VirtualWidgetTree                                      *)
(* (derin_core/src/widget_traverser/virtual_widget_tree.rs).               *)
(*                                                                         *)
(* The tree is a value: a record with the fields of the Rust struct.       *)
(* insert and remove are operators from a tree (and arguments) to the      *)
(* tree they leave behind, the value they return and how the call ended;   *)
(* the actions InsertOp and RemoveOp apply them to the variable `tree`.    *)
(* A call that panics or never returns ends the run: no action is enabled  *)
(* afterwards, and `tree` shows what the call had written by then.         *)
(***************************************************************************)
EXTENDS Integers, Sequences, FiniteSets, TLC

(* ---------------------------- bounds ----------------------------------- *)
\* Number of distinct non-root WidgetIds the callers use.
NumWidgets == 3
\* Largest child_index passed to insert.
MaxIndex == 1
\* Number of distinct WidgetIdents passed to insert (Num(0) .. Num(NumIdents-1)).
NumIdents == 2
\* Number of non-root WidgetIds used by the callers that pass any ident.
NumIdentWidgets == 2

(* ---------------------------- values ----------------------------------- *)
\* The WidgetId the tree is constructed with.
RootId == 0
\* Option::None in a child slot.
None == -1
\* ROOT_IDENT = WidgetIdent::Num(0)
ROOT_IDENT == 0

WidgetIds == 1..NumWidgets
AllIds == {RootId} \cup WidgetIds
Idents == 0..(NumIdents - 1)
Indices == 0..MaxIndex
IdentIds == {RootId} \cup (1..NumIdentWidgets)

(* ------------------- crate helpers on vectors -------------------------- *)
\* crate::find_index and crate::vec_remove_element are defined in the crate
\* root; they are modelled from their call sites: the first match is found
\* and taken out of the Vec, which gets one element shorter.  Child lists in
\* this model have at most MaxIndex + 1 slots.
\* Position (1-based) of the first element equal to e, 0 when there is none.
find_index(s, e) ==
    IF \E i \in 1..Len(s) : s[i] = e
    THEN CHOOSE i \in 1..Len(s) : s[i] = e /\ \A j \in 1..(i - 1) : s[j] # e
    ELSE 0

\* Vec::remove(i): the elements after position i move one place down.
VecRemoveAt(s, i) == [j \in 1..(Len(s) - 1) |-> IF j < i THEN s[j] ELSE s[j + 1]]

\* Removes the first element equal to e, if any; later elements shift down.
vec_remove_element(s, e) ==
    IF find_index(s, e) = 0 THEN s ELSE VecRemoveAt(s, find_index(s, e))

\* children.resize(n, None) for n >= Len(s)
ResizeNone(s, n) == [j \in 1..n |-> IF j <= Len(s) THEN s[j] ELSE None]

\* while let Some(None) = v.last() { v.pop(); }
RECURSIVE TrimTrailingNone(_)
TrimTrailingNone(s) ==
    IF Len(s) > 0 /\ s[Len(s)] = None
    THEN TrimTrailingNone(SubSeq(s, 1, Len(s) - 1))
    ELSE s

\* The occupied slots of a child list, in order (iter().flatten()).
Flatten(s) == SelectSeq(s, LAMBDA x : x # None)

(* --------------------------- the tree ---------------------------------- *)
\* VirtualWidgetTree::new(root)
NewTree(root) ==
    [ root          |-> root,
      root_data     |-> [ident |-> ROOT_IDENT, depth |-> 0],
      root_children |-> << >>,
      tree_data     |-> [x \in {} |-> 0] ]

\* WidgetTreeNode::new(parent_id, ident, depth)
NewNode(parent_id, ident, depth) ==
    [ parent_id |-> parent_id,
      children  |-> << >>,
      data      |-> [ident |-> ident, depth |-> depth] ]

\* get_widget_node(id).is_some()
HasNode(t, id) == id = t.root \/ id \in DOMAIN t.tree_data

\* get_widget_node(id).1
ChildrenOf(t, id) ==
    IF id = t.root THEN t.root_children ELSE t.tree_data[id].children

\* get_widget_node(id).0
DataOf(t, id) ==
    IF id = t.root THEN t.root_data ELSE t.tree_data[id].data

\* Assignment through get_widget_node_mut(id).1
SetChildren(t, id, c) ==
    IF id = t.root
    THEN [t EXCEPT !.root_children = c]
    ELSE [t EXCEPT !.tree_data[id].children = c]

\* HashMap::remove / OccupiedEntry::remove
MapRemove(td, id) == [x \in (DOMAIN td) \ {id} |-> td[x]]

\* HashMap insert into a vacant entry
MapInsert(td, id, node) == [x \in (DOMAIN td) \cup {id} |-> IF x = id THEN node ELSE td[x]]

(* ----------------------- update_node_depth ----------------------------- *)
\* How a call ends: it returns, it panics (expect/unwrap/index on a missing
\* entry), or its recursion never ends and the thread's stack overflows.
Returned == "returned"
Panicked == "panic"
Overflow == "stack overflow"

\* update_node_depth that writes the node's own depth and leaves its
\* descendants' cached depths as they were.
update_node_depth_Shallow(td, depth, id, fuel) ==
    [td |-> [td EXCEPT ![id].data.depth = depth], how |-> Returned]

\* update_node_depth(depth, node) for the node with key id: writes the depth,
\* then recurses into every occupied child slot, in order.  `fuel` is the
\* number of nested calls still possible before the same node must have been
\* entered twice on one call path; past that point the recursion has no end.
RECURSIVE update_node_depth(_, _, _, _)
RECURSIVE UpdateChildrenDepth(_, _, _, _)
update_node_depth(td, depth, id, fuel) ==
    IF fuel = 0
    THEN [td |-> td, how |-> Overflow]
    ELSE LET td1 == [td EXCEPT ![id].data.depth = depth]
         IN  UpdateChildrenDepth(td1, depth + 1, Flatten(td1[id].children), fuel - 1)

UpdateChildrenDepth(td, depth, cs, fuel) ==
    IF cs = << >>
    THEN [td |-> td, how |-> Returned]
    ELSE IF Head(cs) \notin DOMAIN td
    THEN [td |-> td, how |-> Panicked]
    ELSE LET r == update_node_depth(td, depth, Head(cs), fuel)
         IN  IF r.how # Returned THEN r
             ELSE UpdateChildrenDepth(r.td, depth, Tail(cs), fuel)

(* ------------------------------ remove --------------------------------- *)
\* A removal loop that drops the queued children and does not queue theirs.
RemoveQueue_ChildrenOnly(td, widgets_to_remove) ==
    [td  |-> [x \in (DOMAIN td) \ {widgets_to_remove[i] : i \in 1..Len(widgets_to_remove)}
                 |-> td[x]],
     how |-> Returned]

\* The breadth-first removal loop of remove: pops the front of the queue,
\* skips empty slots, removes the node and queues its children.
RECURSIVE RemoveQueue(_, _)
RemoveQueue(td, widgets_to_remove) ==
    IF widgets_to_remove = << >>
    THEN [td |-> td, how |-> Returned]
    ELSE LET remove_id == Head(widgets_to_remove)
         IN  IF remove_id = None
             THEN RemoveQueue(td, Tail(widgets_to_remove))
             ELSE IF remove_id \notin DOMAIN td
             THEN [td |-> td, how |-> Panicked]
             ELSE RemoveQueue(MapRemove(td, remove_id),
                              Tail(widgets_to_remove) \o td[remove_id].children)

\* A remove that takes the root for a node of the table and empties the tree.
Remove_RootClears(t, widget_id) ==
    IF widget_id = t.root
    THEN [tree |-> NewTree(t.root), result |-> "Some", how |-> Returned]
    ELSE [tree |-> t, result |-> "None", how |-> Returned]

\* A remove that also queues the widget's siblings for removal.
Remove_DropsSiblings(t, widget_id) ==
    IF widget_id \notin DOMAIN t.tree_data
    THEN [tree |-> t, result |-> "None", how |-> Returned]
    ELSE LET node == t.tree_data[widget_id]
             t1   == [t EXCEPT !.tree_data = MapRemove(@, widget_id)]
         IN  IF ~HasNode(t1, node.parent_id)
             THEN [tree |-> t1, result |-> "None", how |-> Panicked]
             ELSE LET siblings ==
                          vec_remove_element(ChildrenOf(t1, node.parent_id), widget_id)
                      t2 == SetChildren(t1, node.parent_id, << >>)
                      q  == RemoveQueue(t2.tree_data, node.children \o siblings)
                  IN  [tree   |-> [t2 EXCEPT !.tree_data = q.td],
                       result |-> IF q.how = Returned THEN "Some" ELSE "None",
                       how    |-> q.how]

\* VirtualWidgetTree::remove(widget_id)
Remove(t, widget_id) ==
    IF widget_id \notin DOMAIN t.tree_data
    THEN [tree |-> t, result |-> "None", how |-> Returned]
    ELSE LET node == t.tree_data[widget_id]
             t1   == [t EXCEPT !.tree_data = MapRemove(@, widget_id)]
         IN  IF ~HasNode(t1, node.parent_id)
             THEN [tree |-> t1, result |-> "None", how |-> Panicked]
             ELSE LET parent_children ==
                          TrimTrailingNone(
                              vec_remove_element(ChildrenOf(t1, node.parent_id), widget_id))
                      t2 == SetChildren(t1, node.parent_id, parent_children)
                      q  == RemoveQueue(t2.tree_data, node.children)
                  IN  [tree   |-> [t2 EXCEPT !.tree_data = q.td],
                       result |-> IF q.how = Returned THEN "Some" ELSE "None",
                       how    |-> q.how]

(* ------------------------------ insert --------------------------------- *)
\* An Occupied arm that leaves the widget in its old parent's child list.
InsertOccupied_NoDetach(t, parent_id, widget_id, widget_ident, parent_depth) ==
    LET old_parent_id == t.tree_data[widget_id].parent_id
        t1 == [t EXCEPT !.tree_data[widget_id].parent_id = parent_id,
                        !.tree_data[widget_id].data.ident = widget_ident]
        t2 == SetChildren(t1, old_parent_id, TrimTrailingNone(ChildrenOf(t1, old_parent_id)))
    IN  IF old_parent_id = parent_id
        THEN [tree |-> t2, how |-> Returned]
        ELSE LET u == update_node_depth(t2.tree_data, parent_depth + 1, widget_id,
                                        Cardinality(DOMAIN t2.tree_data))
             IN  [tree |-> [t2 EXCEPT !.tree_data = u.td], how |-> u.how]

\* An Occupied arm that re-parents the widget and keeps the ident it had.
InsertOccupied_KeepIdent(t, parent_id, widget_id, widget_ident, parent_depth) ==
    LET old_parent_id == t.tree_data[widget_id].parent_id
        t1 == [t EXCEPT !.tree_data[widget_id].parent_id = parent_id]
        trimmed == TrimTrailingNone(ChildrenOf(t1, old_parent_id))
        t2 == SetChildren(t1, old_parent_id, trimmed)
    IN  IF old_parent_id = parent_id
        THEN [tree |-> t2, how |-> Returned]
        ELSE LET t3 == SetChildren(t2, old_parent_id, vec_remove_element(trimmed, widget_id))
                 u  == update_node_depth(t3.tree_data, parent_depth + 1, widget_id,
                                         Cardinality(DOMAIN t3.tree_data))
             IN  [tree |-> [t3 EXCEPT !.tree_data = u.td], how |-> u.how]

\* The Entry::Occupied arm of insert: the widget is already in the table.
\* t is the tree after the new parent's child list was written.
InsertOccupied(t, parent_id, widget_id, widget_ident, parent_depth) ==
    LET old_parent_id == t.tree_data[widget_id].parent_id
        t1 == [t EXCEPT !.tree_data[widget_id].parent_id = parent_id,
                        !.tree_data[widget_id].data.ident = widget_ident]
    IN  IF ~HasNode(t1, old_parent_id)
        THEN [tree |-> t1, how |-> Panicked]
        ELSE LET trimmed == TrimTrailingNone(ChildrenOf(t1, old_parent_id))
                 t2      == SetChildren(t1, old_parent_id, trimmed)
             IN  IF old_parent_id = parent_id
                 THEN [tree |-> t2, how |-> Returned]
                 ELSE IF find_index(trimmed, widget_id) = 0
                 THEN [tree |-> t2, how |-> Panicked]
                 ELSE LET t3 == SetChildren(t2, old_parent_id,
                                            vec_remove_element(trimmed, widget_id))
                          u  == update_node_depth(t3.tree_data, parent_depth + 1, widget_id,
                                                  Cardinality(DOMAIN t3.tree_data))
                      IN  [tree |-> [t3 EXCEPT !.tree_data = u.td], how |-> u.how]

\* The Entry::Vacant arm of insert.
InsertVacant(t, parent_id, widget_id, widget_ident, parent_depth) ==
    [tree |-> [t EXCEPT !.tree_data =
                   MapInsert(@, widget_id, NewNode(parent_id, widget_ident, parent_depth + 1))],
     how  |-> Returned]

\* The body of insert once the parent was found.
InsertFound(t, parent_id, widget_id, child_index, widget_ident) ==
    LET parent_depth == DataOf(t, parent_id).depth
        c1 == vec_remove_element(ChildrenOf(t, parent_id), widget_id)
        c2 == IF Len(c1) <= child_index THEN ResizeNone(c1, child_index + 1) ELSE c1
        removed_widget_id == c2[child_index + 1]
        c3 == [c2 EXCEPT ![child_index + 1] = widget_id]
        t1 == SetChildren(t, parent_id, c3)
        e  == IF widget_id \in DOMAIN t1.tree_data
              THEN InsertOccupied(t1, parent_id, widget_id, widget_ident, parent_depth)
              ELSE InsertVacant(t1, parent_id, widget_id, widget_ident, parent_depth)
    IN  IF e.how # Returned
        THEN [tree |-> e.tree, result |-> "None", how |-> e.how]
        ELSE IF removed_widget_id # None /\ removed_widget_id # widget_id
        THEN LET r == Remove(e.tree, removed_widget_id)
             IN  [tree |-> r.tree,
                  result |-> IF r.how = Returned THEN "Ok" ELSE "None",
                  how |-> r.how]
        ELSE [tree |-> e.tree, result |-> "Ok", how |-> Returned]

\* An insert that looks the parent up before it compares the id with the root.
Insert_ParentFirst(t, parent_id, widget_id, child_index, widget_ident) ==
    IF ~HasNode(t, parent_id)
    THEN [tree |-> t, result |-> "ParentNotInTree", how |-> Returned]
    ELSE IF widget_id = t.root
    THEN [tree |-> t, result |-> "WidgetIsRoot", how |-> Returned]
    ELSE InsertFound(t, parent_id, widget_id, child_index, widget_ident)

\* VirtualWidgetTree::insert(parent_id, widget_id, child_index, widget_ident)
Insert(t, parent_id, widget_id, child_index, widget_ident) ==
    IF widget_id = t.root
    THEN [tree |-> t, result |-> "WidgetIsRoot", how |-> Returned]
    ELSE IF HasNode(t, parent_id)
    THEN InsertFound(t, parent_id, widget_id, child_index, widget_ident)
    ELSE [tree |-> t, result |-> "ParentNotInTree", how |-> Returned]

(* ------------------------------ queries -------------------------------- *)
\* Result<WidgetId, WidgetRelationError>
Ok(id) == [ok |-> id]
Err(e) == [err |-> e]

\* VirtualWidgetTree::parent(widget_id)
Parent(t, widget_id) ==
    IF widget_id = t.root THEN Err("RelationNotFound")
    ELSE IF widget_id \in DOMAIN t.tree_data THEN Ok(t.tree_data[widget_id].parent_id)
    ELSE Err("WidgetNotFound")

\* VirtualWidgetTree::child_index(widget_id, child_index)
ChildIndex(t, widget_id, child_index) ==
    IF ~HasNode(t, widget_id) THEN Err("WidgetNotFound")
    ELSE LET children == ChildrenOf(t, widget_id)
         IN  IF child_index + 1 <= Len(children) /\ children[child_index + 1] # None
             THEN Ok(children[child_index + 1])
             ELSE Err("RelationNotFound")

\* Option<WidgetId> as a query returns it.
Some(id) == [some |-> id]
Nothing == [none |-> TRUE]

\* Option::unwrap / expect on an absent value, or an index out of bounds.
Panic == [panic |-> TRUE]

\* The content of a child slot as an Option<WidgetId>.
OptionOf(slot) == IF slot = None THEN Nothing ELSE Some(slot)

\* The largest offset the queries are called with, either way.
MaxOffset == 3
Offsets == (0 - MaxOffset)..MaxOffset

\* Rust's `%` on isize: the remainder takes the sign of the dividend.
Abs(i) == IF i < 0 THEN 0 - i ELSE i
Rem(i, rhs) == IF i < 0 THEN 0 - ((0 - i) % Abs(rhs)) ELSE i % Abs(rhs)

\* The mod_euc closure of sibling_wrapping.
mod_euc(i, rhs) ==
    LET r == Rem(i, rhs)
    IN  IF r < 0
        THEN IF rhs < 0 THEN r - rhs ELSE r + rhs
        ELSE r

\* A get that clamps a negative index to the first slot instead of casting it.
GetAsUsize_Clamped(siblings, i) ==
    IF i + 1 > Len(siblings) THEN Nothing
    ELSE OptionOf(siblings[IF i < 0 THEN 1 ELSE i + 1])

\* siblings.get(i as usize).cloned().and_then(|id| id) for an isize i: a negative
\* i casts to a usize of at least 2^63, which is past the end of every Vec.
GetAsUsize(siblings, i) ==
    IF i < 0 \/ i + 1 > Len(siblings) THEN Nothing ELSE OptionOf(siblings[i + 1])

\* A sibling that gives the root no sibling at all, itself included.
Sibling_RootHasNone(t, widget_id, offset) ==
    IF widget_id = t.root THEN Err("RelationNotFound")
    ELSE IF widget_id \notin DOMAIN t.tree_data THEN Err("WidgetNotFound")
    ELSE Ok(widget_id)

\* VirtualWidgetTree::sibling(widget_id, offset)
Sibling(t, widget_id, offset) ==
    IF widget_id = t.root
    THEN IF offset = 0 THEN Ok(t.root) ELSE Err("RelationNotFound")
    ELSE IF widget_id \notin DOMAIN t.tree_data THEN Err("WidgetNotFound")
    ELSE IF offset = 0 THEN Ok(widget_id)
    ELSE IF ~HasNode(t, t.tree_data[widget_id].parent_id) THEN Panic
    ELSE LET siblings == ChildrenOf(t, t.tree_data[widget_id].parent_id)
             found == find_index(siblings, widget_id)
         IN  IF found = 0 THEN Panic
             ELSE LET r == GetAsUsize(siblings, (found - 1) + offset)
                  IN  IF r = Nothing THEN Err("RelationNotFound") ELSE Ok(r.some)

\* A sibling_wrapping without the root case: the root is not a key of the table.
SiblingWrapping_NoRootCase(t, widget_id, offset) ==
    IF widget_id \notin DOMAIN t.tree_data THEN Nothing
    ELSE Some(widget_id)

\* VirtualWidgetTree::sibling_wrapping(widget_id, offset)
SiblingWrapping(t, widget_id, offset) ==
    IF widget_id = t.root THEN Some(t.root)
    ELSE IF widget_id \notin DOMAIN t.tree_data THEN Nothing
    ELSE IF offset = 0 THEN Some(widget_id)
    ELSE IF ~HasNode(t, t.tree_data[widget_id].parent_id) THEN Panic
    ELSE LET siblings == ChildrenOf(t, t.tree_data[widget_id].parent_id)
             found == find_index(siblings, widget_id)
         IN  IF found = 0 THEN Panic
             ELSE OptionOf(siblings[mod_euc((found - 1) + offset, Len(siblings)) + 1])

\* VirtualWidgetTree::children(widget_id): the ids in the non-empty slots, in
\* slot order; a child missing from the table is a "Bad tree state" panic.
Children(t, widget_id) ==
    IF ~HasNode(t, widget_id) THEN Nothing
    ELSE LET ids == Flatten(ChildrenOf(t, widget_id))
         IN  IF \E i \in 1..Len(ids) : ids[i] \notin DOMAIN t.tree_data
             THEN Panic ELSE Some(ids)

\* VirtualWidgetTree::child_ident(widget_id, child_ident)
ChildIdent(t, widget_id, child_ident) ==
    LET children == Children(t, widget_id)
    IN  IF children = Nothing THEN Err("WidgetNotFound")
        ELSE IF children = Panic THEN Panic
        ELSE LET hits == {i \in 1..Len(children.some) :
                             t.tree_data[children.some[i]].data.ident = child_ident}
             IN  IF hits = {} THEN Err("RelationNotFound")
                 ELSE Ok(children.some[CHOOSE i \in hits : \A j \in hits : i <= j])

\* A get_widget_and_parent that reports the depth as the length.
get_widget_and_parent_LenIsDepth(t, id) ==
    IF t.root = id
    THEN Some([ident |-> t.root_data.ident, parent |-> None, len |-> 0])
    ELSE IF id \in DOMAIN t.tree_data
    THEN Some([ident |-> t.tree_data[id].data.ident,
               parent |-> t.tree_data[id].parent_id,
               len |-> t.tree_data[id].data.depth])
    ELSE Nothing

\* The get_widget_and_parent closure of path_reversed: the ident, the parent
\* (None for the root) and the length reported for the sequence starting here.
get_widget_and_parent(t, id) ==
    IF t.root = id
    THEN Some([ident |-> t.root_data.ident, parent |-> None, len |-> 1])
    ELSE IF id \in DOMAIN t.tree_data
    THEN Some([ident |-> t.tree_data[id].data.ident,
               parent |-> t.tree_data[id].parent_id,
               len |-> t.tree_data[id].data.depth + 1])
    ELSE Nothing

\* The items the iterator of path_reversed yields from `id` on, and whether it
\* ends within `fuel` items.
RECURSIVE PathItems(_, _, _)
PathItems(t, id, fuel) ==
    IF fuel = 0 THEN [items |-> << >>, finished |-> FALSE]
    ELSE LET cur == get_widget_and_parent(t, id).some
             item == [ident |-> cur.ident, id |-> id]
         IN  IF cur.parent = None
             THEN [items |-> << item >>, finished |-> TRUE]
             ELSE IF get_widget_and_parent(t, cur.parent) = Nothing
             THEN [items |-> << >>, finished |-> TRUE]
             ELSE LET rest == PathItems(t, cur.parent, fuel - 1)
                  IN  [items |-> << item >> \o rest.items, finished |-> rest.finished]

\* VirtualWidgetTree::path_reversed(id): the reported length and the items.
PathReversed(t, id) ==
    IF get_widget_and_parent(t, id) = Nothing THEN Nothing
    ELSE LET run == PathItems(t, id, Cardinality(DOMAIN t.tree_data) + 2)
         IN  Some([len |-> get_widget_and_parent(t, id).some.len,
                   items |-> run.items, finished |-> run.finished])

(* --------------------------- state machine ----------------------------- *)
VARIABLES
    tree,   \* the VirtualWidgetTree
    how,    \* how the last call ended; nothing runs after a panic or overflow
    last    \* the last call: its arguments, its result, the ids it dropped, the
            \* length the parent's child list had and the parent the widget had

tree_vars == << tree, how, last >>

VARIABLES
    event_queue,  \* EventDispatcher: the events queued and not yet dispatched
    actions,      \* TranslatorInner::actions
    input_state,  \* the InputState the caller hands to the translator
    pc,           \* "idle" between calls, "dispatching" inside dispatch_events
    delivered,    \* the on_widget_event calls made since the last window event
    produced,     \* the actions the event ops carried since the last drain
    inputs        \* the last two window events translated, and the last drain

translator_vars == << event_queue, actions, input_state, pc, delivered, produced, inputs >>

VARIABLES
    nr_vec,       \* NRVec: vec (the frames), ident_vec and top_parent_offset
    tags,         \* the update tag of every widget
    stack_last    \* the last call on the stack: its argument and what it returned

stack_vars == << nr_vec, tags, stack_last >>

VARIABLES
    offset_view,  \* the last call made through an OffsetWidget: the widget, what
                  \* it was called with and what the widget or visitor received
    view,         \* the OffsetWidget in hand: widget, offset and clip
    widget_rects, \* Widget::rect() of every widget, in its parent's space
    overflow_checks \* whether the build panics on integer overflow

offset_vars == << offset_view, view, widget_rects, overflow_checks >>

VARIABLES
    container,    \* the WidgetContainer in hand: its shape and its widgets
    container_last, \* the last call on the container and what it gave
    group_rects,  \* Widget::rect() of the widgets a Group lays out
    registered_messages, \* WidgetTag::registered_messages: the message fns of each key
    message_call, \* Widget::dispatch_message: where it is, the list it took out
                  \* of the tag and the fns it has called
    update_messages \* the tag asked its update state for a message-table update

widget_vars == << container, container_last, group_rects, registered_messages,
                 message_call, update_messages >>

vars == << tree, how, last, event_queue, actions, input_state, pc, delivered, produced,
           inputs, nr_vec, tags, stack_last, offset_view, view, widget_rects,
           overflow_checks, container, container_last, group_rects,
           registered_messages, message_call, update_messages >>

\* NRAllocCache::new(): no frame and no ident yet, no widget visited.
NoStackCall == [op |-> "new", len |-> 0, result |-> [none |-> TRUE], turn |-> 0]
NoStack ==
    /\ nr_vec = [vec |-> << >>, ident_vec |-> << >>, top_parent_offset |-> << 0, 0 >>]
    /\ tags = << >>
    /\ stack_last = NoStackCall

\* No message has been dispatched: no key, no list taken out, no fn called.
NoMessageCall ==
    [pc |-> "idle", ended |-> "new", message_key |-> 0, message_fns |-> << >>,
     next |-> 0, before |-> << >>, called |-> << >>, added |-> << >>, after |-> << >>]

\* No container has been made and no message fn registered.
NoWidgets ==
    /\ container = [shape |-> "none"]
    /\ container_last = [op |-> "new"]
    /\ group_rects = << >>
    /\ registered_messages = << >>
    /\ message_call = NoMessageCall
    /\ update_messages = FALSE

\* No OffsetWidget has been made or handed an event.
NoView ==
    /\ offset_view = [op |-> "new"]
    /\ view = [widget |-> RootId, offset |-> << 0, 0 >>, clip |-> [none |-> TRUE]]
    /\ widget_rects = << >>
    /\ overflow_checks = FALSE

\* An InputState before any input: no cursor position, no button and no key
\* held, no modifier; it names the given hover and focus widgets.
NewInputState(hover, focus) ==
    [mouse_pos |-> Nothing, mouse_hover_widget |-> hover, mouse_buttons_down |-> {},
     keys_down |-> << >>, focused_widget |-> focus, modifiers |-> {}]

\* A translator that has been constructed and never used.  keys_pressed are
\* the keys whose latest key input was a KeyDown.
NoInputs == [op |-> "new", prev |-> Nothing, last |-> Nothing, drained |-> << >>,
             keys_pressed |-> {}]
TranslatorNew ==
    /\ event_queue = << >>
    /\ actions = << >>
    /\ input_state = NewInputState(Nothing, Nothing)
    /\ pc = "idle"
    /\ delivered = << >>
    /\ produced = << >>
    /\ inputs = NoInputs

\* The ident the tests' virtual_widget_tree! macro gives a widget: its own name.
NameOf(widget_id) == widget_id

\* The ids a tree holds (the root and the keys of the table).
IdsOf(t) == {t.root} \cup DOMAIN t.tree_data

\* The parent recorded for an id of the table, None for any other id.
OldParent(t, widget_id) ==
    IF widget_id \in DOMAIN t.tree_data THEN t.tree_data[widget_id].parent_id ELSE None

\* The ident recorded for an id of the tree, ROOT_IDENT for any other id.
OldIdent(t, widget_id) ==
    IF HasNode(t, widget_id) THEN DataOf(t, widget_id).ident ELSE ROOT_IDENT

NoCall == [op |-> "new", parent_id |-> None, widget_id |-> None, child_index |-> 0,
           ident |-> ROOT_IDENT, result |-> "None", removed |-> {}, pre_len |-> 0,
           old_parent_id |-> None, old_ident |-> ROOT_IDENT]

TreeInit ==
    /\ tree = NewTree(RootId)
    /\ how = Returned
    /\ last = NoCall
    /\ TranslatorNew
    /\ NoStack
    /\ NoView
    /\ NoWidgets

\* One call of insert with arguments drawn from the given sets; idents[w] are
\* the idents the callers pass for widget w.
InsertCall(ids, idents) ==
    /\ how = Returned
    /\ UNCHANGED << translator_vars, stack_vars, offset_vars, widget_vars >>
    /\ \E parent_id \in ids, widget_id \in ids, child_index \in Indices :
         \E ident \in idents[widget_id] :
            LET r == Insert(tree, parent_id, widget_id, child_index, ident)
            IN  /\ tree' = r.tree
                /\ how' = r.how
                /\ last' = [op |-> "insert", parent_id |-> parent_id,
                            widget_id |-> widget_id, child_index |-> child_index,
                            ident |-> ident, result |-> r.result,
                            removed |-> IdsOf(tree) \ IdsOf(r.tree),
                            pre_len |-> IF HasNode(tree, parent_id)
                                        THEN Len(ChildrenOf(tree, parent_id)) ELSE 0,
                            old_parent_id |-> OldParent(tree, widget_id),
                            old_ident |-> OldIdent(tree, widget_id)]

\* One call of remove with the id drawn from the given set.
RemoveCall(ids) ==
    /\ how = Returned
    /\ UNCHANGED << translator_vars, stack_vars, offset_vars, widget_vars >>
    /\ \E widget_id \in ids :
          LET r == Remove(tree, widget_id)
          IN  /\ tree' = r.tree
              /\ how' = r.how
              /\ last' = [op |-> "remove", parent_id |-> None, widget_id |-> widget_id,
                          child_index |-> 0, ident |-> ROOT_IDENT, result |-> r.result,
                          removed |-> IdsOf(tree) \ IdsOf(r.tree), pre_len |-> 0,
                          old_parent_id |-> OldParent(tree, widget_id),
                            old_ident |-> OldIdent(tree, widget_id)]

\* Callers that name every widget after itself, as the tests do.
InsertOp == InsertCall(AllIds, [w \in AllIds |-> {NameOf(w)}])
RemoveOp == RemoveCall(AllIds)

TreeNext == InsertOp \/ RemoveOp

TreeSpec == TreeInit /\ [][TreeNext]_vars

\* Callers that pass any ident, over fewer widgets.
InsertIdentOp == InsertCall(IdentIds, [w \in IdentIds |-> Idents])
RemoveIdentOp == RemoveCall(IdentIds)

IdentNext == InsertIdentOp \/ RemoveIdentOp

IdentSpec == TreeInit /\ [][IdentNext]_vars

(* --------------------------- the widgets ------------------------------- *)
\* The widgets of test_widget_tree!: root { left { tl, bl }, right }.
root_widget == RootId
left == 1
tl == 2
bl == 3
right == 4
LiveIds == {root_widget, left, tl, bl, right}

\* A WidgetId that names no widget any more.
GoneId == 5

\* The children a widget exposes through as_parent, in index order.
LiveChildren(w) ==
    IF w = root_widget THEN << left, right >>
    ELSE IF w = left THEN << tl, bl >>
    ELSE << >>

LiveParent(w) == IF w \in {tl, bl} THEN left ELSE root_widget

\* Widget::rect(): << min x, min y, max x, max y >> relative to the parent.
Rect(w) ==
    IF w = root_widget THEN << 0, 0, 500, 500 >>
    ELSE IF w = left THEN << 10, 10, 240, 490 >>
    ELSE IF w = tl THEN << 10, 10, 220, 230 >>
    ELSE IF w = bl THEN << 10, 250, 220, 470 >>
    ELSE << 260, 10, 490, 490 >>

\* OffsetWidget::rect(): the widget's rect plus the offset the traversal has
\* accumulated, which is the minimum corner of the parent's offset rect.
RECURSIVE OffsetRect(_)
OffsetRect(w) ==
    IF w = root_widget THEN Rect(w)
    ELSE LET child_offset == OffsetRect(LiveParent(w))
         IN  << Rect(w)[1] + child_offset[1], Rect(w)[2] + child_offset[2],
                Rect(w)[3] + child_offset[1], Rect(w)[4] + child_offset[2] >>

\* rect.contains(point)
Contains(rect, point) ==
    /\ rect[1] <= point[1] /\ point[1] <= rect[3]
    /\ rect[2] <= point[2] /\ point[2] <= rect[4]

\* Cursor positions: inside tl, inside left only, inside the root only,
\* outside the window.
InTl == << 50, 50 >>
InLeft == << 15, 100 >>
InRoot == << 250, 250 >>
Outside == << 600, 600 >>
Points == {InTl, InLeft, InRoot, Outside}

\* The virtual tree that mirrors the widgets.
MirrorTree ==
    LET t1 == Insert(NewTree(root_widget), root_widget, left, 0, NameOf(left)).tree
        t2 == Insert(t1, root_widget, right, 1, NameOf(right)).tree
        t3 == Insert(t2, left, tl, 0, NameOf(tl)).tree
    IN  Insert(t3, left, bl, 1, NameOf(bl)).tree

(* ------------------------- the event translator ------------------------ *)
\* Most events a dispatch pass may find queued, and most actions undrained.
MaxQueue == 3
MaxActions == 2

\* The action values the widgets emit.
ActionValues == {1, 2}

\* WindowEvent
WindowMouseMove(new_pos) == [kind |-> "MouseMove", pos |-> new_pos]
WindowMouseEnter == [kind |-> "MouseEnter"]
WindowMouseExit == [kind |-> "MouseExit"]
WindowMouseDown(mouse_button) == [kind |-> "MouseDown", button |-> mouse_button]
WindowMouseUp(mouse_button) == [kind |-> "MouseUp", button |-> mouse_button]
WindowMouseScrollLines(dir) == [kind |-> "MouseScrollLines", dir |-> dir]
WindowMouseScrollPx(dir) == [kind |-> "MouseScrollPx", dir |-> dir]
WindowResize == [kind |-> "WindowResize"]
WindowKeyDown(key) == [kind |-> "KeyDown", key |-> key]
WindowKeyUp(key) == [kind |-> "KeyUp", key |-> key]
WindowChar(c) == [kind |-> "Char", char |-> c]
WindowTimer == [kind |-> "Timer"]
WindowRedraw == [kind |-> "Redraw"]

\* WidgetEvent
MouseMove(old_pos, new_pos, in_widget) ==
    [kind |-> "MouseMove", old_pos |-> old_pos, new_pos |-> new_pos,
     in_widget |-> in_widget]
MouseEnter == [kind |-> "MouseEnter"]
MouseExit == [kind |-> "MouseExit"]
MouseDown(pos, in_widget, button) ==
    [kind |-> "MouseDown", pos |-> pos, in_widget |-> in_widget, button |-> button]
MouseUp(pos, down_pos, pressed_in_widget, in_widget, button) ==
    [kind |-> "MouseUp", pos |-> pos, down_pos |-> down_pos,
     pressed_in_widget |-> pressed_in_widget, in_widget |-> in_widget,
     button |-> button]
MouseScrollLines(dir) == [kind |-> "MouseScrollLines", dir |-> dir]
MouseScrollPx(dir) == [kind |-> "MouseScrollPx", dir |-> dir]
KeyDown(key, modifiers) == [kind |-> "KeyDown", key |-> key, modifiers |-> modifiers]
KeyUp(key, modifiers) == [kind |-> "KeyUp", key |-> key, modifiers |-> modifiers]
Char(c) == [kind |-> "Char", char |-> c]

\* EventDispatcher::queue_event(EventDestination::Widget(id),
\*     DispatchableEvent::WidgetEvent { bubble_source: None, event })
queue_event(q, widget_id, event) ==
    Append(q, [destination |-> widget_id, bubble_source |-> None, event |-> event])

\* WidgetStack::move_to_widget_with_tree(w, tree): the widget, if the virtual
\* tree and the live widgets both still hold it.
move_to_widget_with_tree(t, w) ==
    IF HasNode(t, w) /\ w \in LiveIds THEN Some(w) ELSE Nothing

\* The old_hover_widget_opt of translate_window_event.
OldHoverWidget(t, is) ==
    IF is.mouse_hover_widget = Nothing THEN Nothing
    ELSE move_to_widget_with_tree(t, is.mouse_hover_widget.some)

\* The queue_hover_event closure of translate_window_event.
queue_hover_event(t, is, q, event) ==
    IF OldHoverWidget(t, is) # Nothing
    THEN queue_event(q, OldHoverWidget(t, is).some, event)
    ELSE q

\* A MouseMove arm that queues the root's MouseMove before its MouseEnter.
TranslateMouseMove_MoveFirst(t, is, q, new_pos) ==
    LET old_pos == IF is.mouse_pos = Nothing THEN new_pos ELSE is.mouse_pos.some
        is1 == [is EXCEPT !.mouse_pos = Some(new_pos)]
    IN  IF OldHoverWidget(t, is) # Nothing
        THEN [input_state |-> is1,
              queue |-> queue_event(q, OldHoverWidget(t, is).some,
                                    MouseMove(old_pos, new_pos, TRUE))]
        ELSE IF Contains(OffsetRect(root_widget), new_pos)
        THEN [input_state |-> is1,
              queue |-> queue_event(
                            queue_event(q, root_widget,
                                        MouseMove(old_pos, new_pos, TRUE)),
                            root_widget, MouseEnter)]
        ELSE [input_state |-> is1, queue |-> q]

\* translate_window_event, the MouseMove(new_pos) arm
TranslateMouseMove(t, is, q, new_pos) ==
    LET old_pos == IF is.mouse_pos = Nothing THEN new_pos ELSE is.mouse_pos.some
        is1 == [is EXCEPT !.mouse_pos = Some(new_pos)]
    IN  IF OldHoverWidget(t, is) # Nothing
        THEN [input_state |-> is1,
              queue |-> queue_event(q, OldHoverWidget(t, is).some,
                                    MouseMove(old_pos, new_pos, TRUE))]
        ELSE IF Contains(OffsetRect(root_widget), new_pos)
        THEN [input_state |-> is1,
              queue |-> queue_event(
                            queue_event(q, root_widget, MouseEnter),
                            root_widget, MouseMove(old_pos, new_pos, TRUE))]
        ELSE [input_state |-> is1, queue |-> q]

\* A MouseExit arm that clears the position whether or not a button is held.
TranslateMouseExit_AlwaysClears(t, is, q) ==
    [input_state |-> [is EXCEPT !.mouse_pos = Nothing],
     queue |-> queue_hover_event(t, is, q, MouseExit)]

\* translate_window_event, the MouseExit arm
TranslateMouseExit(t, is, q) ==
    [input_state |-> IF is.mouse_buttons_down = {}
                     THEN [is EXCEPT !.mouse_pos = Nothing] ELSE is,
     queue |-> queue_hover_event(t, is, q, MouseExit)]

\* The held buttons, each with the position it went down at:
\* push_button records a button, contains looks one up, release_button
\* takes it out.
push_button(mbd, mouse_button, pos) ==
    {d \in mbd : d.button # mouse_button}
        \cup {[button |-> mouse_button, down_pos |-> pos]}
contains(mbd, mouse_button) ==
    IF \E d \in mbd : d.button = mouse_button
    THEN Some(CHOOSE d \in mbd : d.button = mouse_button)
    ELSE Nothing
release_button(mbd, mouse_button) == {d \in mbd : d.button # mouse_button}

\* A call that returned, and a call that panicked with the state it had made.
Completed(is, q) == [input_state |-> is, queue |-> q, how |-> Returned]
Unimplemented(is, q) == [input_state |-> is, queue |-> q, how |-> Panicked]

\* A MouseDown arm that records the button also when no position is known.
TranslateMouseDown_NoPosition(t, is, q, mouse_button) ==
    LET pos == IF is.mouse_pos # Nothing THEN is.mouse_pos.some ELSE << 0, 0 >>
    IN  Completed([is EXCEPT !.mouse_buttons_down = push_button(@, mouse_button, pos)],
                  queue_hover_event(t, is, q, MouseDown(pos, TRUE, mouse_button)))

\* translate_window_event, the MouseDown(mouse_button) arm
TranslateMouseDown(t, is, q, mouse_button) ==
    IF is.mouse_pos # Nothing
    THEN Completed([is EXCEPT !.mouse_buttons_down =
                                  push_button(@, mouse_button, is.mouse_pos.some)],
                   queue_hover_event(t, is, q,
                                     MouseDown(is.mouse_pos.some, TRUE, mouse_button)))
    ELSE Completed(is, q)

\* translate_window_event, the MouseUp(mouse_button) arm: building the event
\* evaluates `pressed_in_widget: unimplemented!()`, so with a known position
\* and the button held the call panics before anything is queued or released.
TranslateMouseUp(t, is, q, mouse_button) ==
    IF is.mouse_pos # Nothing /\ contains(is.mouse_buttons_down, mouse_button) # Nothing
    THEN Unimplemented(is, q)
    ELSE Completed(is, q)

\* translate_window_event, the KeyDown(key) arm
TranslateKeyDown(is, q, key) ==
    IF find_index(is.keys_down, key) = 0
    THEN LET is1 == [is EXCEPT !.keys_down = Append(@, key)]
         IN  IF is.focused_widget # Nothing
             THEN Completed(is1, queue_event(q, is.focused_widget.some,
                                             KeyDown(key, is.modifiers)))
             ELSE Unimplemented(is1, q)
    ELSE Completed(is, q)

\* A KeyUp arm that does not ask whether the key is held.
TranslateKeyUp_NoCheck(is, q, key) ==
    LET is1 == [is EXCEPT !.keys_down = vec_remove_element(@, key)]
    IN  IF is.focused_widget # Nothing
        THEN Completed(is1, queue_event(q, is.focused_widget.some,
                                        KeyUp(key, is.modifiers)))
        ELSE Unimplemented(is1, q)

\* translate_window_event, the KeyUp(key) arm
TranslateKeyUp(is, q, key) ==
    IF find_index(is.keys_down, key) # 0
    THEN LET is1 == [is EXCEPT !.keys_down = vec_remove_element(@, key)]
         IN  IF is.focused_widget # Nothing
             THEN Completed(is1, queue_event(q, is.focused_widget.some,
                                             KeyUp(key, is.modifiers)))
             ELSE Unimplemented(is1, q)
    ELSE Completed(is, q)

\* translate_window_event, the Char(c) arm
TranslateChar(is, q, c) ==
    IF is.focused_widget # Nothing
    THEN Completed(is, queue_event(q, is.focused_widget.some, Char(c)))
    ELSE Unimplemented(is, q)

\* TranslatorActive::translate_window_event(window_event, input_state)
translate_window_event(t, is, q, window_event) ==
    LET kind == window_event.kind
    IN  IF kind = "MouseMove"
        THEN LET r == TranslateMouseMove(t, is, q, window_event.pos)
             IN  Completed(r.input_state, r.queue)
        ELSE IF kind = "MouseEnter" THEN Completed(is, q)
        ELSE IF kind = "MouseExit"
        THEN LET r == TranslateMouseExit(t, is, q)
             IN  Completed(r.input_state, r.queue)
        ELSE IF kind = "MouseDown" THEN TranslateMouseDown(t, is, q, window_event.button)
        ELSE IF kind = "MouseUp" THEN TranslateMouseUp(t, is, q, window_event.button)
        ELSE IF kind = "MouseScrollLines"
        THEN Completed(is, queue_hover_event(t, is, q, MouseScrollLines(window_event.dir)))
        ELSE IF kind = "MouseScrollPx"
        THEN Completed(is, queue_hover_event(t, is, q, MouseScrollPx(window_event.dir)))
        ELSE IF kind = "KeyDown" THEN TranslateKeyDown(is, q, window_event.key)
        ELSE IF kind = "KeyUp" THEN TranslateKeyUp(is, q, window_event.key)
        ELSE IF kind = "Char" THEN TranslateChar(is, q, window_event.char)
        ELSE Unimplemented(is, q)

\* perform_event_ops that pushes the action twice.
perform_event_ops_Twice(acts, ops) ==
    IF ops.action # None THEN Append(Append(acts, ops.action), ops.action) ELSE acts

\* The perform_event_ops closure: the action of the ops, if there is one, is
\* pushed on the action list. (The focus branch has no body in the source.)
perform_event_ops(acts, ops) ==
    IF ops.action # None THEN Append(acts, ops.action) ELSE acts

\* The first child whose offset rect contains the position (children_mut with
\* LoopFlow::Break on the first hit), None if there is none.
EnterChild(w, new_pos) ==
    LET children == LiveChildren(w)
        hits == {i \in 1..Len(children) : Contains(OffsetRect(children[i]), new_pos)}
    IN  IF hits = {} THEN None
        ELSE children[CHOOSE i \in hits : \A j \in hits : i <= j]

\* What the closure does with an event none of its match arms covers: the
\* source has no arm, so either nothing happens, or the widget is handed the
\* event as it is and its ops are performed.
NoArm(q, acts, widget_id, entry, ops, hands_over) ==
    IF hands_over
    THEN [queue |-> q, actions |-> perform_event_ops(acts, ops),
          delivered |-> << [widget |-> widget_id, event |-> entry.event] >>,
          ops |-> << ops >>]
    ELSE [queue |-> q, actions |-> acts, delivered |-> << >>, ops |-> << >>]

\* A closure whose MouseMove arm queues the move again for the same widget.
DispatchClosure_Requeue(q, acts, widget_id, entry, ops, hands_over) ==
    IF entry.event.kind = "MouseMove"
    THEN [queue |-> queue_event(q, widget_id, entry.event), actions |-> acts,
          delivered |-> << >>, ops |-> << >>]
    ELSE [queue |-> q, actions |-> acts, delivered |-> << >>, ops |-> << >>]

\* The closure dispatch_events hands to the dispatcher, called with the widget
\* an entry of the queue is for; `ops` is what the widget's on_widget_event
\* returns.
DispatchClosure(q, acts, widget_id, entry, ops, hands_over) ==
    IF entry.event.kind = "MouseMove" /\ entry.bubble_source = None
    THEN IF Contains(OffsetRect(widget_id), entry.event.new_pos)
         THEN LET enter_child_opt == EnterChild(widget_id, entry.event.new_pos)
              IN  IF enter_child_opt # None
                  THEN [queue |-> queue_event(q, enter_child_opt, MouseEnter),
                        actions |-> perform_event_ops(acts, ops),
                        delivered |-> << [widget |-> widget_id,
                                          event |-> MouseMove(entry.event.old_pos,
                                                              entry.event.new_pos, FALSE)] >>,
                        ops |-> << ops >>]
                  ELSE NoArm(q, acts, widget_id, entry, ops, hands_over)
         ELSE [queue |-> q, actions |-> acts, delivered |-> << >>, ops |-> << >>]
    ELSE NoArm(q, acts, widget_id, entry, ops, hands_over)

\* The actions a sequence of performed ops carried, in order.
ActionsOf(ops) ==
    [i \in 1..Len(SelectSeq(ops, LAMBDA o : o.action # None)) |->
        SelectSeq(ops, LAMBDA o : o.action # None)[i].action]

\* The hover widgets the caller's InputState may name.
HoverWidgets == {Nothing} \cup {Some(w) : w \in LiveIds \cup {GoneId}}

TranslatorInit ==
    /\ tree = MirrorTree
    /\ how = Returned
    /\ last = NoCall
    /\ event_queue = << >>
    /\ actions = << >>
    /\ input_state \in {NewInputState(h, Nothing) : h \in HoverWidgets}
    /\ pc = "idle"
    /\ delivered = << >>
    /\ produced = << >>
    /\ inputs = NoInputs
    /\ NoStack
    /\ NoView
    /\ NoWidgets

\* The keys whose latest key input was a KeyDown, after one more input.
KeysPressed(pressed, window_event) ==
    IF window_event.kind = "KeyDown" THEN pressed \cup {window_event.key}
    ELSE IF window_event.kind = "KeyUp" THEN pressed \ {window_event.key}
    ELSE pressed

\* One call of translate_window_event between two dispatch passes.
TranslateWindowEvent(window_events) ==
    /\ pc = "idle"
    /\ how = Returned
    /\ Len(event_queue) + 2 <= MaxQueue
    /\ \E window_event \in window_events :
          LET r == translate_window_event(tree, input_state, event_queue, window_event)
          IN  /\ event_queue' = r.queue
              /\ input_state' = r.input_state
              /\ how' = r.how
              /\ inputs' = [op |-> "translate", prev |-> inputs.last,
                            last |-> Some(window_event), drained |-> << >>,
                            keys_pressed |-> KeysPressed(inputs.keys_pressed,
                                                         window_event)]
    /\ delivered' = << >>
    /\ UNCHANGED << stack_vars, offset_vars, widget_vars >>
    /\ UNCHANGED << tree, last, actions, pc, produced >>

\* dispatch_events is called.
DispatchBegin ==
    /\ pc = "idle"
    /\ how = Returned
    /\ pc' = "dispatching"
    /\ inputs' = [inputs EXCEPT !.op = "dispatch", !.drained = << >>]
    /\ UNCHANGED << stack_vars, offset_vars, widget_vars >>
    /\ UNCHANGED << tree, how, last, event_queue, actions, input_state, delivered, produced >>

\* EventDispatcher::dispatch_events, one turn of its loop: the first entry is
\* taken off the queue; if its widget is still there the closure is called
\* with it, otherwise the entry is dropped. The widget answers with ops that
\* carry no action or one of action_values.
DispatchEventWith(action_values, hand_overs) ==
    /\ pc = "dispatching"
    /\ event_queue # << >>
    /\ LET entry == Head(event_queue)
           found == move_to_widget_with_tree(tree, entry.destination)
       IN  IF found = Nothing
           THEN /\ event_queue' = Tail(event_queue)
                /\ UNCHANGED << actions, delivered, produced >>
           ELSE \E action \in {None} \cup
                              (IF Len(produced) < MaxActions THEN action_values ELSE {}),
                   hands_over \in hand_overs :
                   LET r == DispatchClosure(Tail(event_queue), actions, found.some,
                                            entry, [action |-> action], hands_over)
                   IN  /\ event_queue' = r.queue
                       /\ actions' = r.actions
                       /\ delivered' = delivered \o r.delivered
                       /\ produced' = produced \o ActionsOf(r.ops)
    /\ UNCHANGED << stack_vars, offset_vars, widget_vars >>
    /\ UNCHANGED << tree, how, last, input_state, pc, inputs >>

DispatchEvent == DispatchEventWith(ActionValues, BOOLEAN)

\* EventDispatcher::dispatch_events returns once the queue is empty.
DispatchReturn ==
    /\ pc = "dispatching"
    /\ event_queue = << >>
    /\ pc' = "idle"
    /\ UNCHANGED << stack_vars, offset_vars, widget_vars >>
    /\ UNCHANGED << tree, how, last, event_queue, actions, input_state, delivered,
                    produced, inputs >>

\* EventTranslator::drain_actions(), its iterator run to the end.
Drain(acts) == [returned |-> acts, actions |-> << >>]

DrainActions ==
    /\ pc = "idle"
    /\ how = Returned
    /\ inputs.op # "drain"
    /\ actions' = Drain(actions).actions
    /\ inputs' = [inputs EXCEPT !.op = "drain", !.drained = Drain(actions).returned]
    /\ produced' = << >>
    /\ UNCHANGED << stack_vars, offset_vars, widget_vars >>
    /\ UNCHANGED << tree, how, last, event_queue, input_state, pc, delivered >>

MouseInput == TranslateWindowEvent({WindowMouseMove(p) : p \in Points}
                                     \cup {WindowMouseEnter, WindowMouseExit})

TranslatorNext ==
    MouseInput \/ DispatchBegin \/ DispatchEvent \/ DispatchReturn \/ DrainActions

TranslatorSpec == TranslatorInit /\ [][TranslatorNext]_vars

\* The translator with widgets that emit no action: the passes alone.
QuietDispatchEvent == DispatchEventWith({}, BOOLEAN)

PassNext == MouseInput \/ DispatchBegin \/ QuietDispatchEvent \/ DispatchReturn

\* dispatch_events runs on once it is called: the loop takes its next turn and
\* the call returns when the queue is empty.
PassFairSpec ==
    /\ TranslatorInit
    /\ [][PassNext]_vars
    /\ WF_vars(QuietDispatchEvent)
    /\ WF_vars(DispatchReturn)

\* The mouse with its buttons: moves, exits, presses and releases.
Buttons == {"Left", "Right"}

ButtonPoints == {InTl, Outside}

ButtonInput ==
    TranslateWindowEvent({WindowMouseMove(p) : p \in ButtonPoints} \cup {WindowMouseExit}
                           \cup {WindowMouseDown(b) : b \in Buttons}
                           \cup {WindowMouseUp(b) : b \in Buttons})

ButtonNext == ButtonInput \/ DispatchBegin \/ QuietDispatchEvent \/ DispatchReturn

ButtonSpec == TranslatorInit /\ [][ButtonNext]_vars

\* The keyboard: key presses, key releases and characters, with the focus on
\* no widget, on a widget of the tree, or on a widget that is gone.
Keys == {"A", "B"}
FocusWidgets == {Nothing, Some(left), Some(GoneId)}

KeyInit ==
    /\ tree = MirrorTree
    /\ how = Returned
    /\ last = NoCall
    /\ event_queue = << >>
    /\ actions = << >>
    /\ input_state \in {NewInputState(Nothing, f) : f \in FocusWidgets}
    /\ pc = "idle"
    /\ delivered = << >>
    /\ produced = << >>
    /\ inputs = NoInputs
    /\ NoStack
    /\ NoView
    /\ NoWidgets

KeyInput ==
    TranslateWindowEvent({WindowKeyDown(k) : k \in Keys}
                           \cup {WindowKeyUp(k) : k \in Keys} \cup {WindowChar("a")})

\* Between two calls the caller's InputState comes to name another focused
\* widget.
FocusMoves ==
    /\ pc = "idle"
    /\ how = Returned
    /\ \E f \in FocusWidgets \ {input_state.focused_widget} :
          input_state' = [input_state EXCEPT !.focused_widget = f]
    /\ UNCHANGED << stack_vars, offset_vars, widget_vars >>
    /\ UNCHANGED << tree, how, last, event_queue, actions, pc, delivered, produced,
                    inputs >>

KeyNext ==
    KeyInput \/ FocusMoves \/ DispatchBegin \/ QuietDispatchEvent \/ DispatchReturn

KeySpec == KeyInit /\ [][KeyNext]_vars

(* --------------------------- the node stack ---------------------------- *)
\* The bounds a frame holds while its node is on top: 0xDEDBEEF four times.
DEDBEEF == 233684719
NoBounds == << DEDBEEF, DEDBEEF, DEDBEEF, DEDBEEF >>

\* NodeIdent::Num and NodeIdent::Str
Num(n) == [num |-> n]
Str(name) == [str |-> name]

\* bounds.min().to_vec(), and the sum and difference of two vectors
MinOf(bounds) == << bounds[1], bounds[2] >>
VecAdd(a, b) == << a[1] + b[1], a[2] + b[2] >>
VecSub(a, b) == << a[1] - b[1], a[2] - b[2] >>

\* The update tag of a widget: whether the widget itself has asked for an
\* update, and whether it has been marked as having a child that needs one.
NoUpdate == [self |-> FALSE, child |-> FALSE]
\* update_tag().needs_update(root_id) != Update::default()
NeedsUpdate(tag) == tag.self \/ tag.child
\* update_tag().mark_update_child_immutable()
mark_update_child_immutable(tag) == [tag EXCEPT !.child = TRUE]

StackElement(node, bounds, index) == [node |-> node, bounds |-> bounds, index |-> index]

\* The NodeSummary values the with_top closure of try_push may answer with:
\* one for each child of the top node.
SummariesOf(w) ==
    {[node |-> LiveChildren(w)[i], ident |-> Str(NameOf(LiveChildren(w)[i])),
      index |-> i - 1] : i \in 1..Len(LiveChildren(w))}

\* NRAllocCache::use_cache(node, root_id)
use_cache(node) ==
    [vec |-> << StackElement(node, NoBounds, 0) >>,
     ident_vec |-> << Num(0) >>,
     top_parent_offset |-> << 0, 0 >>]

\* NRVec::try_push(with_top), the closure answering new_top_opt
try_push(s, new_top_opt) ==
    IF new_top_opt = Nothing
    THEN [stack |-> s, result |-> Nothing, how |-> Returned]
    ELSE LET new_top_summary == new_top_opt.some
             n == Len(s.vec)
             bounds == Rect(s.vec[n].node)
         IN  IF new_top_summary.node = s.vec[n].node
             THEN [stack |-> s, result |-> Nothing, how |-> Panicked]
             ELSE [stack |->
                     [vec |-> Append([s.vec EXCEPT ![n].bounds = bounds],
                                     StackElement(new_top_summary.node, NoBounds,
                                                  new_top_summary.index)),
                      ident_vec |-> Append(s.ident_vec, new_top_summary.ident),
                      top_parent_offset |-> VecAdd(s.top_parent_offset, MinOf(bounds))],
                   result |-> new_top_opt, how |-> Returned]

\* A pop that takes the base frame off as well.
pop_NoBaseCheck(s, tg) ==
    LET n == Len(s.vec)
    IN  IF n = 0 THEN [stack |-> s, tags |-> tg, result |-> Nothing]
        ELSE [stack |-> [vec |-> SubSeq(s.vec, 1, n - 1),
                         ident_vec |-> SubSeq(s.ident_vec, 1, Len(s.ident_vec) - 1),
                         top_parent_offset |-> s.top_parent_offset],
              tags |-> tg, result |-> Some(s.vec[n].node)]

\* NRVec::pop()
pop(s, tg) ==
    LET n == Len(s.vec)
    IN  IF n = 1 THEN [stack |-> s, tags |-> tg, result |-> Nothing]
        ELSE LET popped == s.vec[n].node
                 last_mut == s.vec[n - 1]
             IN  [stack |->
                     [vec |-> [SubSeq(s.vec, 1, n - 1) EXCEPT ![n - 1].bounds = NoBounds],
                      ident_vec |-> SubSeq(s.ident_vec, 1, Len(s.ident_vec) - 1),
                      top_parent_offset |-> VecSub(s.top_parent_offset,
                                                   MinOf(last_mut.bounds))],
                  tags |-> IF NeedsUpdate(tg[popped])
                           THEN [tg EXCEPT ![last_mut.node] =
                                              mark_update_child_immutable(@)]
                           ELSE tg,
                  result |-> Some(popped)]

\* The windows taken from the bottom up: each pair sees the tags as they
\* were before the pair above it was looked at.
RECURSIVE MarkWindows_Forward(_, _, _, _)
MarkWindows_Forward(vec, tg, from, upto) ==
    IF upto < from THEN tg
    ELSE LET parent == vec[from].node
             child == vec[from + 1].node
         IN  MarkWindows_Forward(vec,
                         IF NeedsUpdate(tg[child])
                         THEN [tg EXCEPT ![parent] = mark_update_child_immutable(@)]
                         ELSE tg,
                         from + 1, upto)

\* The loop of truncate over vec[len-1..].windows(2).rev(): the pairs
\* (parent, child) at positions (k, k + 1), from k = upto down to k = from.
RECURSIVE MarkWindows(_, _, _, _)
MarkWindows(vec, tg, from, upto) ==
    IF upto < from THEN tg
    ELSE LET parent == vec[upto].node
             child == vec[upto + 1].node
         IN  MarkWindows(vec,
                         IF NeedsUpdate(tg[child])
                         THEN [tg EXCEPT ![parent] = mark_update_child_immutable(@)]
                         ELSE tg,
                         from, upto - 1)

\* The sum of bounds.min() over the frames 1..n.
RECURSIVE SumOfMins(_, _)
SumOfMins(vec, n) ==
    IF n = 0 THEN << 0, 0 >>
    ELSE VecAdd(SumOfMins(vec, n - 1), MinOf(vec[n].bounds))

\* A truncate that leaves top_parent_offset as it was.
truncate_KeepsOffset(s, tg, len) ==
    LET n == Len(s.vec)
    IN  IF len = 0 \/ len - 1 > n
        THEN [stack |-> s, tags |-> tg, how |-> Panicked]
        ELSE LET kept == IF len < n THEN len ELSE n
             IN  [stack |-> [vec |-> SubSeq(s.vec, 1, kept),
                             ident_vec |-> SubSeq(s.ident_vec, 1, kept),
                             top_parent_offset |-> s.top_parent_offset],
                  tags |-> MarkWindows(s.vec, tg, len, n - 1),
                  how |-> Returned]

\* NRVec::truncate(len): assert_ne!(0, len); vec[len-1..] panics when len - 1
\* is past the end of the frames.
truncate(s, tg, len) ==
    LET n == Len(s.vec)
    IN  IF len = 0 \/ len - 1 > n
        THEN [stack |-> s, tags |-> tg, how |-> Panicked]
        ELSE LET kept == IF len < n THEN len ELSE n
                 vec == SubSeq(s.vec, 1, kept)
             IN  [stack |-> [vec |-> vec,
                             ident_vec |-> SubSeq(s.ident_vec, 1, kept),
                             top_parent_offset |-> SumOfMins(vec, len - 1)],
                  tags |-> MarkWindows(s.vec, tg, len, n - 1),
                  how |-> Returned]

\* Drop for NRVec, its `while let Some(_) = self.pop() {}`
RECURSIVE PopAll(_, _)
PopAll(s, tg) ==
    IF pop(s, tg).result = Nothing THEN [stack |-> s, tags |-> tg]
    ELSE PopAll(pop(s, tg).stack, pop(s, tg).tags)

\* Drop for NRVec: every frame above the base is popped, then the frames and
\* the idents are cleared and the allocation goes back to the cache.
drop(s, tg) ==
    [stack |-> [vec |-> << >>, ident_vec |-> << >>,
                top_parent_offset |-> PopAll(s, tg).stack.top_parent_offset],
     tags |-> PopAll(s, tg).tags]

\* Most frames a stack is truncated to.
MaxLen == 4

\* The stack exists: use_cache was called and the NRVec was not dropped.
InUse == stack_last.op \notin {"new", "drop"}

StackCall(op, len, result) ==
    [op |-> op, len |-> len, result |-> result, turn |-> 1 - stack_last.turn]

StackInit ==
    /\ tree = MirrorTree
    /\ how = Returned
    /\ last = NoCall
    /\ TranslatorNew
    /\ nr_vec = use_cache(root_widget)
    /\ tags = [w \in LiveIds |-> NoUpdate]
    /\ stack_last = [NoStackCall EXCEPT !.op = "use_cache"]
    /\ NoView
    /\ NoWidgets

\* The cache is used for another traversal from the root.
UseCache ==
    /\ how = Returned
    /\ stack_last.op = "drop"
    /\ nr_vec' = use_cache(root_widget)
    /\ stack_last' = StackCall("use_cache", 0, Nothing)
    /\ UNCHANGED << tree_vars, translator_vars, offset_vars, widget_vars, tags >>

\* try_push with a closure that answers with a child of the top node, with
\* the top node itself, or with None.
TryPush ==
    /\ how = Returned
    /\ InUse
    /\ LET top == nr_vec.vec[Len(nr_vec.vec)]
       IN  \E new_top_opt \in {Nothing} \cup {Some(c) : c \in SummariesOf(top.node)}
                                 \cup {Some([node |-> top.node, ident |-> Num(0),
                                             index |-> 0])} :
              LET r == try_push(nr_vec, new_top_opt)
              IN  /\ nr_vec' = r.stack
                  /\ how' = r.how
                  /\ stack_last' = StackCall("try_push", 0, r.result)
    /\ UNCHANGED << tree, last, translator_vars, offset_vars, widget_vars, tags >>

Pop ==
    /\ how = Returned
    /\ InUse
    /\ LET r == pop(nr_vec, tags)
       IN  /\ nr_vec' = r.stack
           /\ tags' = r.tags
           /\ stack_last' = StackCall("pop", 0, r.result)
    /\ UNCHANGED << tree_vars, translator_vars, offset_vars, widget_vars >>

\* truncate(len) with a length out of lens.
TruncateTo(lens) ==
    /\ how = Returned
    /\ InUse
    /\ \E len \in lens :
          LET r == truncate(nr_vec, tags, len)
          IN  /\ nr_vec' = r.stack
              /\ tags' = r.tags
              /\ how' = r.how
              /\ stack_last' = StackCall("truncate", len, Nothing)
    /\ UNCHANGED << tree, last, translator_vars, offset_vars, widget_vars >>

Truncate == TruncateTo(0..MaxLen)

DropStack ==
    /\ how = Returned
    /\ InUse
    /\ nr_vec' = drop(nr_vec, tags).stack
    /\ tags' = drop(nr_vec, tags).tags
    /\ stack_last' = StackCall("drop", 0, Nothing)
    /\ UNCHANGED << tree_vars, translator_vars, offset_vars, widget_vars >>

\* The widget on top asks for an update while it is visited.
RequestUpdate ==
    /\ how = Returned
    /\ InUse
    /\ ~tags[nr_vec.vec[Len(nr_vec.vec)].node].self
    /\ tags' = [tags EXCEPT ![nr_vec.vec[Len(nr_vec.vec)].node].self = TRUE]
    /\ UNCHANGED << tree_vars, translator_vars, offset_vars, widget_vars, nr_vec, stack_last >>

\* The update of a widget that is not on the stack is done: its tag is clear
\* again.
UpdateDone ==
    /\ how = Returned
    /\ \E w \in LiveIds :
          /\ \A i \in 1..Len(nr_vec.vec) : nr_vec.vec[i].node # w
          /\ tags[w] # NoUpdate
          /\ tags' = [tags EXCEPT ![w] = NoUpdate]
    /\ UNCHANGED << tree_vars, translator_vars, offset_vars, widget_vars, nr_vec, stack_last >>

StackNext ==
    UseCache \/ TryPush \/ Pop \/ Truncate \/ DropStack \/ RequestUpdate \/ UpdateDone

StackSpec == StackInit /\ [][StackNext]_vars

\* A traversal that truncates to lengths from 1 to the number of frames only.
TruncateWithin == TruncateTo(1..Len(nr_vec.vec))

PathNext == TryPush \/ Pop \/ TruncateWithin \/ RequestUpdate \/ UpdateDone

PathSpec == StackInit /\ [][PathNext]_vars

(* --------------------------- the offset view --------------------------- *)
\* -offset.  (Positions are i32; the window positions and widget rects used
\* here are far from its limits.)
VecNeg(a) == << 0 - a[1], 0 - a[2] >>

\* The OffsetWidget children_mut makes for a child: its offset is the minimum
\* corner of the parent's rect(); the root is wrapped with no offset.
OffsetWidgetOf(w) ==
    [widget |-> w,
     offset |-> IF w = root_widget THEN << 0, 0 >>
                ELSE MinOf(OffsetRect(LiveParent(w)))]

\* OffsetWidget::rect(): self.widget.rect() + self.offset
rect(ow) ==
    LET r == Rect(ow.widget)
    IN  << r[1] + ow.offset[1], r[2] + ow.offset[2],
           r[3] + ow.offset[1], r[4] + ow.offset[2] >>

\* WidgetEvent::translate(dir): the positions an event carries, moved by dir.
translate(event, dir) ==
    IF event.kind = "MouseMove"
    THEN [event EXCEPT !.old_pos = VecAdd(@, dir), !.new_pos = VecAdd(@, dir)]
    ELSE IF event.kind = "MouseDown"
    THEN [event EXCEPT !.pos = VecAdd(@, dir)]
    ELSE IF event.kind = "MouseUp"
    THEN [event EXCEPT !.pos = VecAdd(@, dir), !.down_pos = VecAdd(@, dir)]
    ELSE event

\* The held buttons with their down positions moved into the widget's space.
DownsMoved(downs, offset) ==
    {[d EXCEPT !.down_pos = VecSub(@, offset)] : d \in downs}

\* An on_widget_event that takes the offset the wrapper was made with for the
\* widget's own corner.
on_widget_event_ParentOffset(ow, event, is, mouse_button_sequence) ==
    LET offset == ow.offset
    IN  [event |-> translate(event, VecNeg(offset)),
         input_state |->
            [mouse_pos |-> IF is.mouse_pos = Nothing THEN Nothing
                           ELSE Some(VecSub(is.mouse_pos.some, offset)),
             modifiers |-> is.modifiers,
             mouse_buttons_down |-> DownsMoved(is.mouse_buttons_down, offset),
             mouse_buttons_down_in_widget |->
                DownsMoved({d \in is.mouse_buttons_down :
                               d.button \in mouse_button_sequence}, offset),
             keys_down |-> is.keys_down]]

\* OffsetWidget::on_widget_event(event, input_state): what the wrapped widget
\* is called with.  mouse_button_sequence are the buttons the widget's tag
\* holds as pressed in the widget.  (The two ArrayVecs hold five entries, one
\* for each mouse button there is.)
on_widget_event(ow, event, is, mouse_button_sequence) ==
    LET offset == MinOf(rect(ow))
    IN  [event |-> translate(event, VecNeg(offset)),
         input_state |->
            [mouse_pos |-> IF is.mouse_pos = Nothing THEN Nothing
                           ELSE Some(VecSub(is.mouse_pos.some, offset)),
             modifiers |-> is.modifiers,
             mouse_buttons_down |-> DownsMoved(is.mouse_buttons_down, offset),
             mouse_buttons_down_in_widget |->
                DownsMoved({d \in is.mouse_buttons_down :
                               d.button \in mouse_button_sequence}, offset),
             keys_down |-> is.keys_down]]

\* The events and the input states the widgets are called with.
ViewPoints == {InTl, Outside}
ViewEvents ==
    {MouseMove(p, q, TRUE) : p \in ViewPoints, q \in ViewPoints}
        \cup {MouseDown(p, TRUE, "Left") : p \in ViewPoints}
        \cup {MouseUp(p, q, TRUE, TRUE, "Left") : p \in ViewPoints, q \in ViewPoints}
        \cup {MouseEnter, MouseExit, KeyDown("A", {})}
ViewInputStates ==
    {[NewInputState(Nothing, Nothing) EXCEPT !.mouse_pos = p, !.mouse_buttons_down = d] :
        p \in {Nothing} \cup {Some(q) : q \in ViewPoints},
        d \in {{}, {[button |-> "Left", down_pos |-> InTl]},
               {[button |-> "Left", down_pos |-> InTl],
                [button |-> "Right", down_pos |-> Outside]}}}

OffsetInit ==
    /\ tree = MirrorTree
    /\ how = Returned
    /\ last = NoCall
    /\ TranslatorNew
    /\ NoStack
    /\ NoView
    /\ NoWidgets

\* A widget is handed an event through its OffsetWidget, which is made for
\* the call and gone after it.
OnWidgetEvent ==
    /\ offset_view.op = "new"
    /\ \E w \in LiveIds, event \in ViewEvents, is \in ViewInputStates,
          mouse_button_sequence \in SUBSET Buttons :
          offset_view' = [op |-> "on_widget_event", widget |-> w, event |-> event,
                          input_state |-> is,
                          mouse_button_sequence |-> mouse_button_sequence,
                          received |-> on_widget_event(OffsetWidgetOf(w), event, is,
                                                       mouse_button_sequence)]
    /\ UNCHANGED << tree_vars, translator_vars, stack_vars, widget_vars, view, widget_rects,
                    overflow_checks >>

OffsetNext == OnWidgetEvent

OffsetSpec == OffsetInit /\ [][OffsetNext]_vars

(* ------------------ the offset view's rectangle and children ----------- *)
\* i32::MAX and i32::MIN
I32Max == 2147483647
I32Min == (0 - I32Max) - 1

\* a + b and a - b leave the range of i32
AddOverflows(a, b) ==
    \/ a >= 0 /\ b > 0 /\ b > I32Max - a
    \/ a < 0 /\ b < 0 /\ b < I32Min - a
SubOverflows(a, b) ==
    \/ a >= 0 /\ b < 0 /\ a > I32Max + b
    \/ a < 0 /\ b > 0 /\ a < I32Min + b

\* a + b and a - b on i32 in a build without overflow checks (two's
\* complement); no intermediate value leaves the range of i32.
wrapping_add(a, b) ==
    IF a >= 0 /\ b > 0 /\ b > I32Max - a THEN (a + I32Min) + (b + I32Min)
    ELSE IF a < 0 /\ b < 0 /\ b < I32Min - a THEN (a - I32Min) + (b - I32Min)
    ELSE a + b
wrapping_sub(a, b) ==
    IF a >= 0 /\ b < 0 /\ a > I32Max + b THEN (a + I32Min) - (b - I32Min)
    ELSE IF a < 0 /\ b > 0 /\ a < I32Min + b THEN (a - I32Min) - (b + I32Min)
    ELSE a - b

\* BoundBox + Vector2 and BoundBox - Vector2: both corners are moved.
BoxAdd(r, v) ==
    << wrapping_add(r[1], v[1]), wrapping_add(r[2], v[2]),
       wrapping_add(r[3], v[1]), wrapping_add(r[4], v[2]) >>
BoxSub(r, v) ==
    << wrapping_sub(r[1], v[1]), wrapping_sub(r[2], v[2]),
       wrapping_sub(r[3], v[1]), wrapping_sub(r[4], v[2]) >>
BoxAddOverflows(r, v) ==
    \/ AddOverflows(r[1], v[1]) \/ AddOverflows(r[2], v[2])
    \/ AddOverflows(r[3], v[1]) \/ AddOverflows(r[4], v[2])
BoxSubOverflows(r, v) ==
    \/ SubOverflows(r[1], v[1]) \/ SubOverflows(r[2], v[2])
    \/ SubOverflows(r[3], v[1]) \/ SubOverflows(r[4], v[2])

\* OffsetWidget::new(widget, offset, clip)
OffsetWidget_new(widget, offset, clip) ==
    [widget |-> widget, offset |-> offset, clip |-> clip]

\* OffsetWidget::rect(): self.widget.rect() + self.offset, where rects holds
\* the rectangle of every widget.
view_rect(ow, rects) == BoxAdd(rects[ow.widget], ow.offset)

\* rect() panics: the sum overflows in a build with overflow checks.
rect_panics(ow, rects, checks) == checks /\ BoxAddOverflows(rects[ow.widget], ow.offset)

\* BoundBox::intersect_rect: the common part of two rectangles, if there is one.
intersect_rect(a, b) ==
    LET lo_x == IF a[1] >= b[1] THEN a[1] ELSE b[1]
        lo_y == IF a[2] >= b[2] THEN a[2] ELSE b[2]
        hi_x == IF a[3] <= b[3] THEN a[3] ELSE b[3]
        hi_y == IF a[4] <= b[4] THEN a[4] ELSE b[4]
    IN  IF lo_x <= hi_x /\ lo_y <= hi_y THEN Some(<< lo_x, lo_y, hi_x, hi_y >>)
        ELSE Nothing

\* OffsetWidget::rect_clipped()
rect_clipped(ow, rects) ==
    IF ow.clip = Nothing THEN Nothing
    ELSE intersect_rect(ow.clip.some, view_rect(ow, rects))

\* A set_rect that adds the offset.
set_rect_Adds(ow, rects, r, checks) ==
    IF checks /\ BoxAddOverflows(r, ow.offset)
    THEN [rects |-> rects, how |-> Panicked]
    ELSE [rects |-> [rects EXCEPT ![ow.widget] = BoxAdd(r, ow.offset)], how |-> Returned]

\* OffsetWidget::set_rect(rect): *self.widget.rect_mut() = rect - self.offset
set_rect(ow, rects, r, checks) ==
    IF checks /\ BoxSubOverflows(r, ow.offset)
    THEN [rects |-> rects, how |-> Panicked]
    ELSE [rects |-> [rects EXCEPT ![ow.widget] = BoxSub(r, ow.offset)], how |-> Returned]

\* The summaries of a widget's children, in index order.
ChildSummaries(w) ==
    [i \in 1..Len(LiveChildren(w)) |->
        [ident |-> Str(NameOf(LiveChildren(w)[i])), index |-> i - 1,
         widget |-> LiveChildren(w)[i]]]

\* The slices a widget hands its children over in: `batch` children at a time.
RECURSIVE Slices(_, _)
Slices(items, batch) ==
    IF Len(items) <= batch THEN (IF items = << >> THEN << >> ELSE << items >>)
    ELSE << SubSeq(items, 1, batch) >> \o Slices(SubSeq(items, batch + 1, Len(items)), batch)

\* The closure OffsetWidget::children and children_mut hand to the widget:
\* for_each is called with each summary of the slice in turn and the loop
\* ends with Break as soon as for_each answers Break.  seen are the summaries
\* for_each was called with before; it answers Break on the calls whose
\* number is in breaks.
RECURSIVE ForEachSummary(_, _, _)
ForEachSummary(summary_slice, breaks, seen) ==
    IF summary_slice = << >> THEN [visited |-> seen, flow |-> "Continue"]
    ELSE LET now == Append(seen, Head(summary_slice))
         IN  IF Len(now) \in breaks THEN [visited |-> now, flow |-> "Break"]
             ELSE ForEachSummary(Tail(summary_slice), breaks, now)

\* ParentDyn::children and children_mut: the closure is called with one slice
\* after the other, until it answers Break.
RECURSIVE ParentDyn_children(_, _, _)
ParentDyn_children(slices, breaks, seen) ==
    IF slices = << >> THEN seen
    ELSE LET r == ForEachSummary(Head(slices), breaks, seen)
         IN  IF r.flow = "Break" THEN r.visited
             ELSE ParentDyn_children(Tail(slices), breaks, r.visited)

\* OffsetWidget::children(for_each): the summaries for_each is called with;
\* each holds a plain reference to the child, as the widget hands it out.
view_children(ow, breaks, batch) ==
    LET plain == [i \in DOMAIN ChildSummaries(ow.widget) |->
                     [ChildSummaries(ow.widget)[i] EXCEPT !.widget = [widget |-> @]]]
    IN  ParentDyn_children(Slices(plain, batch), breaks, << >>)

\* A children_mut that hands its own offset and clip on to the children.
view_children_mut_SameOffset(ow, rects, checks, breaks, batch) ==
    LET wrapped == [i \in DOMAIN ChildSummaries(ow.widget) |->
                       [ChildSummaries(ow.widget)[i] EXCEPT
                           !.widget = OffsetWidget_new(@, ow.offset, ow.clip)]]
    IN  [visited |-> ParentDyn_children(Slices(wrapped, batch), breaks, << >>),
         how |-> Returned]

\* OffsetWidget::children_mut(for_each): the summaries for_each is called
\* with, each child re-wrapped with child_offset and clip_rect.
view_children_mut(ow, rects, checks, breaks, batch) ==
    IF rect_panics(ow, rects, checks) THEN [visited |-> << >>, how |-> Panicked]
    ELSE LET child_offset == MinOf(view_rect(ow, rects))
             clip_rect == rect_clipped(ow, rects)
             wrapped == [i \in DOMAIN ChildSummaries(ow.widget) |->
                            [ChildSummaries(ow.widget)[i] EXCEPT
                                !.widget = OffsetWidget_new(@, child_offset, clip_rect)]]
         IN  [visited |-> ParentDyn_children(Slices(wrapped, batch), breaks, << >>),
              how |-> Returned]

\* The rectangles set_rect is called with, the offsets and clips the first
\* view is made with, and the slice lengths of the widgets.
ViewRects ==
    {<< 0, 0, 100, 100 >>, << 20, 30, 60, 90 >>, << I32Min, I32Min, 0, 0 >>,
     << 400, 400, I32Max, I32Max >>}
ViewOffsets == {<< 0, 0 >>, << 10, 10 >>, << 0 - 30, 5 >>}
ViewClips == {Nothing, Some(<< 0, 0, 500, 500 >>), Some(<< 100, 100, 300, 300 >>)}
MaxBatch == 2

ViewInit ==
    /\ tree = MirrorTree
    /\ how = Returned
    /\ last = NoCall
    /\ TranslatorNew
    /\ NoStack
    /\ NoWidgets
    /\ offset_view = [op |-> "new"]
    /\ overflow_checks \in BOOLEAN
    /\ \E offset \in ViewOffsets, clip \in ViewClips :
          view = OffsetWidget_new(root_widget, offset, clip)
    /\ \E r \in {Rect(root_widget), << 400, 400, I32Max, I32Max >>} :
          widget_rects = [w \in LiveIds |-> IF w = root_widget THEN r ELSE Rect(w)]

\* set_rect(r) on the view in hand.
SetRect ==
    /\ how = Returned
    /\ \E r \in ViewRects :
          LET res == set_rect(view, widget_rects, r, overflow_checks)
          IN  /\ widget_rects' = res.rects
              /\ how' = res.how
              /\ offset_view' = [op |-> "set_rect", rect |-> r]
    /\ UNCHANGED << tree, last, translator_vars, stack_vars, widget_vars, view, overflow_checks >>

\* children(for_each) on the view in hand, which is over a parent widget.
ViewChildren ==
    /\ how = Returned
    /\ LiveChildren(view.widget) # << >>
    /\ \E breaks \in SUBSET (1..Len(LiveChildren(view.widget))), batch \in 1..MaxBatch :
          offset_view' = [op |-> "children", breaks |-> breaks,
                          visited |-> view_children(view, breaks, batch)]
    /\ UNCHANGED << tree_vars, translator_vars, stack_vars, widget_vars, view, widget_rects,
                    overflow_checks >>

\* children_mut(for_each) on the view in hand, which is over a parent widget.
ViewChildrenMut ==
    /\ how = Returned
    /\ LiveChildren(view.widget) # << >>
    /\ \E breaks \in SUBSET (1..Len(LiveChildren(view.widget))), batch \in 1..MaxBatch :
          LET res == view_children_mut(view, widget_rects, overflow_checks, breaks, batch)
          IN  /\ how' = res.how
              /\ offset_view' = [op |-> "children_mut", breaks |-> breaks,
                                 visited |-> res.visited]
    /\ UNCHANGED << tree, last, translator_vars, stack_vars, widget_vars, view, widget_rects,
                    overflow_checks >>

\* The visitor goes on with one of the children it was handed.
VisitChild ==
    /\ how = Returned
    /\ offset_view.op = "children_mut"
    /\ \E i \in DOMAIN offset_view.visited :
          /\ view' = offset_view.visited[i].widget
          /\ offset_view' = [op |-> "visit", parent |-> view]
    /\ UNCHANGED << tree_vars, translator_vars, stack_vars, widget_vars, widget_rects, overflow_checks >>

ViewNext == SetRect \/ ViewChildren \/ ViewChildrenMut \/ VisitChild

ViewSpec == ViewInit /\ [][ViewNext]_vars

(* ----------------------------- containers ------------------------------ *)
\* WidgetIdent::StrCollection and WidgetIdent::NumCollection
StrCollection(name, i) == [str |-> name, at |-> i]
NumCollection(n, i) == [num |-> n, at |-> i]

\* WidgetInfo::new(ident, index, widget) and WidgetInfoMut::new
WidgetInfo(ident, index, widget) == [ident |-> ident, index |-> index, widget |-> widget]

\* The container shapes: SingleContainer, Vec<W>, a struct that derives
\* WidgetContainer (its fields in declaration order) and the children of a
\* TestWidget.  A field has a name or, in a tuple struct, none.
SingleContainer(widget) == [shape |-> "single", widget |-> widget]
VecContainer(widgets) == [shape |-> "vec", widgets |-> widgets]
DerivedContainer(fields) == [shape |-> "derived", fields |-> fields]
TestChildren(w) == [shape |-> "test_widget", parent |-> w]
WidgetField(name, widget) == [kind |-> "Widget", name |-> name, widget |-> widget]
CollectionField(name, widgets) == [kind |-> "Collection", name |-> name, widgets |-> widgets]

\* What a visitor answers on its call_no-th call, made with `summary`: one
\* that answers Break on given calls, the closure of framed_child (Break on
\* the ident looked for), the closure of framed_child_by_index (counts index
\* down and answers Break at zero), and the closure update_layout assigns the
\* rectangles with (Break when the rectangles have run out).
Calls(breaks) == [kind |-> "calls", breaks |-> breaks]
ForIdent(widget_ident) == [kind |-> "ident", ident |-> widget_ident]
ForIndex(index) == [kind |-> "index", index |-> index]
ForRects(n) == [kind |-> "rects", len |-> n]
Answer(for_each_child, summary, call_no) ==
    IF for_each_child.kind = "calls"
    THEN (IF call_no \in for_each_child.breaks THEN "Break" ELSE "Continue")
    ELSE IF for_each_child.kind = "ident"
    THEN (IF summary.ident = for_each_child.ident THEN "Break" ELSE "Continue")
    ELSE IF for_each_child.kind = "index"
    THEN (IF for_each_child.index - (call_no - 1) = 0 THEN "Break" ELSE "Continue")
    ELSE (IF call_no > for_each_child.len THEN "Break" ELSE "Continue")

\* A loop over a Vec that goes on after the visitor has answered Break.
RECURSIVE VecChildren_IgnoresBreak(_, _, _, _)
VecChildren_IgnoresBreak(widgets, index, for_each_child, seen) ==
    IF index >= Len(widgets) THEN seen
    ELSE VecChildren_IgnoresBreak(widgets, index + 1, for_each_child,
             Append(seen, WidgetInfo(Num(index), index, widgets[index + 1])))

\* <Vec<W> as WidgetContainer>::framed_children and framed_children_mut, from
\* `index` on: the summaries the visitor is called with.
RECURSIVE VecChildren(_, _, _, _)
VecChildren(widgets, index, for_each_child, seen) ==
    IF index >= Len(widgets) THEN seen
    ELSE LET now == Append(seen, WidgetInfo(Num(index), index, widgets[index + 1]))
         IN  IF Answer(for_each_child, now[Len(now)], Len(now)) = "Break" THEN now
             ELSE VecChildren(widgets, index + 1, for_each_child, now)

\* The block CallChildIter::next makes for a collection field: the loop over
\* the field's widgets from child_index on.
RECURSIVE CollectionChildren(_, _, _, _, _, _)
CollectionChildren(field, field_num, child_index, index, for_each_child, seen) ==
    IF child_index >= Len(field.widgets)
    THEN [visited |-> seen, flow |-> "Continue", index |-> index]
    ELSE LET child_id == IF field.name # Nothing
                         THEN StrCollection(field.name.some, child_index)
                         ELSE NumCollection(field_num, child_index)
             now == Append(seen, WidgetInfo(child_id, index, field.widgets[child_index + 1]))
         IN  IF Answer(for_each_child, now[Len(now)], Len(now)) = "Break"
             THEN [visited |-> now, flow |-> "Break", index |-> index]
             ELSE CollectionChildren(field, field_num, child_index + 1, index + 1,
                                     for_each_child, now)

\* The body the derive makes for framed_children and framed_children_mut: one
\* block for each field, in declaration order, as CallChildIter::next makes it.
RECURSIVE CallChildIter(_, _, _, _, _)
CallChildIter(fields, field_num, index, for_each_child, seen) ==
    IF field_num >= Len(fields) THEN seen
    ELSE LET field == fields[field_num + 1]
         IN  IF field.kind = "Widget"
             THEN LET child_id == IF field.name # Nothing THEN Str(field.name.some)
                                  ELSE Num(field_num)
                      now == Append(seen, WidgetInfo(child_id, index, field.widget))
                  IN  IF Answer(for_each_child, now[Len(now)], Len(now)) = "Break" THEN now
                      ELSE CallChildIter(fields, field_num + 1, index + 1,
                                         for_each_child, now)
             ELSE LET r == CollectionChildren(field, field_num, 0, index,
                                              for_each_child, seen)
                  IN  IF r.flow = "Break" THEN r.visited
                      ELSE CallChildIter(fields, field_num + 1, r.index,
                                         for_each_child, r.visited)

\* Parent::children and children_mut of TestWidget: the entries of its
\* IndexMap in order.
RECURSIVE TestWidgetChildren(_, _, _, _)
TestWidgetChildren(w, index, for_each_child, seen) ==
    IF index >= Len(LiveChildren(w)) THEN seen
    ELSE LET now == Append(seen, ChildSummaries(w)[index + 1])
         IN  IF Answer(for_each_child, now[Len(now)], Len(now)) = "Break" THEN now
             ELSE TestWidgetChildren(w, index + 1, for_each_child, now)

\* WidgetContainer::framed_children and framed_children_mut (children and
\* children_mut): the summaries the visitor is called with, in call order.
framed_children(c, for_each_child) ==
    IF c.shape = "single" THEN << WidgetInfo(Num(0), 0, c.widget) >>
    ELSE IF c.shape = "vec" THEN VecChildren(c.widgets, 0, for_each_child, << >>)
    ELSE IF c.shape = "derived" THEN CallChildIter(c.fields, 0, 0, for_each_child, << >>)
    ELSE TestWidgetChildren(c.parent, 0, for_each_child, << >>)

\* WidgetContainer::num_children
RECURSIVE num_children_iter(_)
num_children_iter(fields) ==
    IF fields = << >> THEN 0
    ELSE (IF Head(fields).kind = "Widget" THEN 1 ELSE Len(Head(fields).widgets))
             + num_children_iter(Tail(fields))
num_children(c) ==
    IF c.shape = "single" THEN 1
    ELSE IF c.shape = "vec" THEN Len(c.widgets)
    ELSE IF c.shape = "derived" THEN num_children_iter(c.fields)
    ELSE Len(LiveChildren(c.parent))

\* WidgetContainer::framed_child and framed_child_mut (child and child_mut);
\* a TestWidget looks the ident up in its IndexMap.
framed_child(c, widget_ident) ==
    IF c.shape = "test_widget"
    THEN LET hits == {i \in DOMAIN ChildSummaries(c.parent) :
                         ChildSummaries(c.parent)[i].ident = widget_ident}
         IN  IF hits = {} THEN Nothing
             ELSE Some(ChildSummaries(c.parent)[CHOOSE i \in hits : TRUE])
    ELSE LET visited == framed_children(c, ForIdent(widget_ident))
         IN  IF visited # << >> /\ visited[Len(visited)].ident = widget_ident
             THEN Some(visited[Len(visited)])
             ELSE Nothing

\* A framed_child_by_index that counts the index down before it tests it.
framed_child_by_index_CountsFirst(c, index) ==
    LET visited == framed_children(c, ForIndex(index - 1))
    IN  IF index >= 1 /\ Len(visited) >= index THEN Some(visited[index])
        ELSE Nothing

\* WidgetContainer::framed_child_by_index and framed_child_by_index_mut
\* (child_by_index and child_by_index_mut); a TestWidget takes the entry at
\* the index from its IndexMap.
framed_child_by_index(c, index) ==
    IF c.shape = "test_widget"
    THEN (IF index + 1 \in DOMAIN ChildSummaries(c.parent)
          THEN Some(ChildSummaries(c.parent)[index + 1]) ELSE Nothing)
    ELSE LET visited == framed_children(c, ForIndex(index))
         IN  IF Len(visited) >= index + 1 THEN Some(visited[index + 1])
             ELSE Nothing

\* The containers the calls are made on, the idents looked up and the most
\* children a container has.
MaxChildren == 4
Containers ==
    {SingleContainer(left),
     VecContainer(<< >>), VecContainer(<< left >>), VecContainer(<< left, tl, bl >>),
     DerivedContainer(<< >>),
     DerivedContainer(<< WidgetField(Some("label"), left), WidgetField(Some("edit_box"), tl),
                         CollectionField(Some("buttons"), << bl, right >>) >>),
     DerivedContainer(<< CollectionField(Some("buttons"), << >>),
                         WidgetField(Some("label"), left) >>),
     DerivedContainer(<< WidgetField(Nothing, left), CollectionField(Nothing, << tl, bl >>),
                         WidgetField(Nothing, right) >>),
     TestChildren(root_widget), TestChildren(left)}
ContainerIdents ==
    {Num(0), Num(1), Num(2), Num(3), Str("label"), Str("edit_box"), Str("buttons"),
     StrCollection("buttons", 0), StrCollection("buttons", 1),
     StrCollection("buttons", 2), NumCollection(1, 0), NumCollection(1, 1),
     NumCollection(0, 0)}
TestIdents == {Str(NameOf(w)) : w \in {left, right, tl}} \cup {Num(0), NumCollection(1, 0)}
IdentsFor(c) == IF c.shape = "test_widget" THEN TestIdents ELSE ContainerIdents

ContainerInit ==
    /\ tree = MirrorTree
    /\ how = Returned
    /\ last = NoCall
    /\ TranslatorNew
    /\ NoStack
    /\ offset_view = [op |-> "new"]
    /\ overflow_checks = FALSE
    /\ view = OffsetWidget_new(root_widget, << 0, 0 >>, Some(Rect(root_widget)))
    /\ widget_rects = [w \in LiveIds |-> Rect(w)]
    /\ container \in Containers
    /\ container_last = [op |-> "new"]
    /\ group_rects = << >>
    /\ registered_messages = << >>
    /\ message_call = NoMessageCall
    /\ update_messages = FALSE

\* num_children() on the container in hand.
NumChildren ==
    /\ container_last' = [op |-> "num_children", result |-> num_children(container)]
    /\ UNCHANGED << tree_vars, translator_vars, stack_vars, offset_vars, container,
                    group_rects, registered_messages, message_call, update_messages >>

\* children(for_each_child) or children_mut(for_each_child) on the container.
FramedChildren ==
    /\ \E breaks \in SUBSET (1..MaxChildren) :
          container_last' = [op |-> "framed_children", breaks |-> breaks,
                             visited |-> framed_children(container, Calls(breaks))]
    /\ UNCHANGED << tree_vars, translator_vars, stack_vars, offset_vars, container,
                    group_rects, registered_messages, message_call, update_messages >>

\* child(widget_ident) or child_mut(widget_ident) on the container.
FramedChild ==
    /\ \E widget_ident \in IdentsFor(container) :
          container_last' = [op |-> "framed_child", ident |-> widget_ident,
                             result |-> framed_child(container, widget_ident)]
    /\ UNCHANGED << tree_vars, translator_vars, stack_vars, offset_vars, container,
                    group_rects, registered_messages, message_call, update_messages >>

\* child_by_index(index) or child_by_index_mut(index) on the container.
FramedChildByIndex ==
    /\ \E index \in 0..MaxChildren :
          container_last' = [op |-> "framed_child_by_index", index |-> index,
                             result |-> framed_child_by_index(container, index)]
    /\ UNCHANGED << tree_vars, translator_vars, stack_vars, offset_vars, container,
                    group_rects, registered_messages, message_call, update_messages >>

ContainerNext ==
    \/ NumChildren \/ FramedChildren \/ FramedChild \/ FramedChildByIndex
    \/ ViewChildren \/ ViewChildrenMut

ContainerSpec == ContainerInit /\ [][ContainerNext]_vars

(* ------------------------------ the group ------------------------------ *)
\* GridEngine::update_engine(hints_vec, rects_vec, ..): rects_vec comes back
\* with one result for each hint, in the same order.  The results are the
\* engine's: each is a rectangle or a solve failure.
EngineRects == {<< 0, 0, 40, 20 >>, << 5, 30, 45, 50 >>}
update_engine(hints_vec) ==
    [1..Len(hints_vec) -> {Ok(r) : r \in EngineRects} \cup {Err("SolveError")}]

\* The closure of the second pass, called on visited[k] for k = from, ...:
\* the widget gets the next rectangle of rects_iter, or the sentinel.
RECURSIVE AssignRects(_, _, _, _)
AssignRects(rects, visited, rects_vec, from) ==
    IF from > Len(visited) \/ from > Len(rects_vec) THEN rects
    ELSE AssignRects([rects EXCEPT ![visited[from].widget] =
                         IF "ok" \in DOMAIN rects_vec[from] THEN rects_vec[from].ok
                         ELSE NoBounds],
                     visited, rects_vec, from + 1)

\* An update_layout that gives up at the first solve failure.
update_layout_StopsAtFailure(c, rects, rects_vec) ==
    LET failed == {i \in DOMAIN rects_vec : "ok" \notin DOMAIN rects_vec[i]}
        upto == IF failed = {} THEN Len(rects_vec)
                ELSE (CHOOSE i \in failed : \A j \in failed : i <= j) - 1
    IN  AssignRects(rects, framed_children(c, ForRects(upto)),
                    SubSeq(rects_vec, 1, upto), 1)

\* Group::update_layout, from the engine's results on: children_mut with the
\* closure that takes rects_iter.next() for each child and answers Break when
\* there is none.  Gives the rectangles of the widgets afterwards.
update_layout(c, rects, rects_vec) ==
    AssignRects(rects, framed_children(c, ForRects(Len(rects_vec))), rects_vec, 1)

\* The containers a Group is made with: all that implement WidgetContainer.
GroupContainers == {c \in Containers : c.shape # "test_widget"}

GroupInit ==
    /\ tree = MirrorTree
    /\ how = Returned
    /\ last = NoCall
    /\ TranslatorNew
    /\ NoStack
    /\ NoView
    /\ container \in GroupContainers
    /\ container_last = [op |-> "new"]
    /\ group_rects = [w \in LiveIds |-> << 0, 0, 0, 0 >>]
    /\ registered_messages = << >>
    /\ message_call = NoMessageCall
    /\ update_messages = FALSE

\* Group::update_layout: the first pass pushes a hint and a rectangle for
\* every child, the engine solves, the second pass hands the results out.
UpdateLayout ==
    /\ LET hints_vec == framed_children(container, Calls({}))
       IN  \E rects_vec \in update_engine(hints_vec) :
              /\ group_rects' = update_layout(container, group_rects, rects_vec)
              /\ container_last' = [op |-> "update_layout", rects_vec |-> rects_vec]
    /\ UNCHANGED << tree_vars, translator_vars, stack_vars, offset_vars, container,
                    registered_messages, message_call, update_messages >>

GroupNext == UpdateLayout

GroupSpec == GroupInit /\ [][GroupNext]_vars

(* ------------------------------ messages ------------------------------- *)
\* The WidgetMessageKeys a message can have and the number of fns one run
\* registers; fns are named 1, 2, ... in the order they were registered.
MessageKeys == 1..2
MaxFns == 4

\* registered_messages.entry(key).or_insert(Cell::new(SmallVec::new()))
\*     .get_mut().push(f)
register_message(rm, key, f) ==
    [k \in (DOMAIN rm) \cup {key} |->
        IF k = key
        THEN (IF key \in DOMAIN rm THEN Append(rm[key], f) ELSE << f >>)
        ELSE rm[k]]

\* The first half of dispatch_message: get(&message_key), then
\* message_fns_cell.replace(SmallVec::new()).
take_message_fns(rm, message_key) ==
    IF message_key \notin DOMAIN rm
    THEN [found |-> FALSE, rm |-> rm, message_fns |-> << >>]
    ELSE [found |-> TRUE, rm |-> [rm EXCEPT ![message_key] = << >>],
          message_fns |-> rm[message_key]]

\* A second half that puts the list it took back and drops what the cell held.
put_message_fns_DropsNew(rm, message_key, message_fns) ==
    IF message_key \notin DOMAIN rm THEN rm
    ELSE [rm EXCEPT ![message_key] = message_fns]

\* The second half of dispatch_message: get(&message_key) again, take the
\* cell's new fns, message_fns.extend(new_message_fns), put the list back.
put_message_fns(rm, message_key, message_fns) ==
    IF message_key \notin DOMAIN rm THEN rm
    ELSE LET new_message_fns == rm[message_key]
         IN  [rm EXCEPT ![message_key] = message_fns \o new_message_fns]

\* The fns registered so far, those dispatch_message holds included.
RECURSIVE FnsIn(_, _)
FnsIn(rm, keys) ==
    IF keys = {} THEN 0
    ELSE LET k == CHOOSE x \in keys : TRUE
         IN  Len(rm[k]) + FnsIn(rm, keys \ {k})

FnCount == FnsIn(registered_messages, DOMAIN registered_messages)
               + (IF message_call.pc = "idle" THEN 0 ELSE Len(message_call.message_fns))

MessageInit ==
    /\ tree = NewTree(RootId)
    /\ how = Returned
    /\ last = NoCall
    /\ TranslatorNew
    /\ NoStack
    /\ NoView
    /\ NoWidgets

\* WidgetTag::register_message, called by the program between dispatches or
\* by a message fn while it runs.
RegisterMessage ==
    /\ message_call.pc \in {"idle", "in_fn"}
    /\ FnCount < MaxFns
    /\ \E key \in MessageKeys :
          /\ update_messages' = TRUE
          /\ registered_messages' = register_message(registered_messages, key, FnCount + 1)
          /\ message_call' =
                IF message_call.pc = "in_fn" /\ key = message_call.message_key
                THEN [message_call EXCEPT !.added = Append(@, FnCount + 1)]
                ELSE message_call
    /\ UNCHANGED << tree_vars, translator_vars, stack_vars, offset_vars,
                    container, container_last, group_rects >>

\* dispatch_message up to its loop: no entry for the key and it returns,
\* otherwise it takes the list out of the cell.
DispatchMessage ==
    /\ message_call.pc = "idle"
    /\ \E message_key \in MessageKeys :
          LET t == take_message_fns(registered_messages, message_key)
          IN  /\ registered_messages' = t.rm
              /\ message_call' =
                    [pc |-> IF t.found THEN "loop" ELSE "idle",
                     ended |-> IF t.found THEN "running" ELSE "no entry",
                     message_key |-> message_key, message_fns |-> t.message_fns,
                     next |-> 1, before |-> t.message_fns, called |-> << >>,
                     added |-> << >>, after |-> << >>]
    /\ UNCHANGED << tree_vars, translator_vars, stack_vars, offset_vars,
                    container, container_last, group_rects, update_messages >>

\* for f in &mut message_fns: the next fn is called.
CallMessageFn ==
    /\ message_call.pc = "loop"
    /\ message_call.next <= Len(message_call.message_fns)
    /\ message_call' =
          [message_call EXCEPT
              !.pc = "in_fn",
              !.called = Append(@, message_call.message_fns[message_call.next])]
    /\ UNCHANGED << tree_vars, translator_vars, stack_vars, offset_vars,
                    container, container_last, group_rects, registered_messages,
                    update_messages >>

\* The fn returns and the loop moves on.
MessageFnReturns ==
    /\ message_call.pc = "in_fn"
    /\ message_call' = [message_call EXCEPT !.pc = "loop", !.next = @ + 1]
    /\ UNCHANGED << tree_vars, translator_vars, stack_vars, offset_vars,
                    container, container_last, group_rects, registered_messages,
                    update_messages >>

\* dispatch_message after its loop: the new fns are pulled into the list and
\* the list goes back into the cell.
DispatchMessageEnd ==
    /\ message_call.pc = "loop"
    /\ message_call.next > Len(message_call.message_fns)
    /\ registered_messages' =
          put_message_fns(registered_messages, message_call.message_key,
                          message_call.message_fns)
    /\ message_call' =
          [message_call EXCEPT
              !.pc = "idle", !.ended = "put back", !.message_fns = << >>,
              !.after = registered_messages'[message_call.message_key]]
    /\ UNCHANGED << tree_vars, translator_vars, stack_vars, offset_vars,
                    container, container_last, group_rects, update_messages >>

MessageNext ==
    \/ RegisterMessage
    \/ DispatchMessage
    \/ CallMessageFn
    \/ MessageFnReturns
    \/ DispatchMessageEnd

MessageSpec == MessageInit /\ [][MessageNext]_vars

(* ------------------------- derived notions ----------------------------- *)
\* Following parent links from id reaches the root within `fuel` steps.
RECURSIVE ReachesRoot(_, _, _)
ReachesRoot(t, id, fuel) ==
    IF id = t.root THEN TRUE
    ELSE IF fuel = 0 \/ id \notin DOMAIN t.tree_data THEN FALSE
    ELSE ReachesRoot(t, t.tree_data[id].parent_id, fuel - 1)

\* a is id itself or one of its ancestors by parent links (at most `fuel` links).
RECURSIVE HasAncestor(_, _, _, _)
HasAncestor(t, id, a, fuel) ==
    IF id = a THEN TRUE
    ELSE IF id = t.root \/ fuel = 0 \/ id \notin DOMAIN t.tree_data THEN FALSE
    ELSE HasAncestor(t, t.tree_data[id].parent_id, a, fuel - 1)

\* The ids in the subtree rooted at x, x included.
SubtreeOf(t, x) ==
    {y \in IdsOf(t) : HasAncestor(t, y, x, Cardinality(DOMAIN t.tree_data))}

\* The child slots (owner, position) that hold id.
SlotsOf(t, id) ==
    {sl \in IdsOf(t) \X (1..(MaxIndex + 1)) :
        /\ sl[2] <= Len(ChildrenOf(t, sl[1]))
        /\ ChildrenOf(t, sl[1])[sl[2]] = id}

\* Every cached depth is the parent's plus one; the root's is 0.
DepthConsistent(t) ==
    /\ t.root_data.depth = 0
    /\ \A id \in DOMAIN t.tree_data :
          /\ HasNode(t, t.tree_data[id].parent_id)
          /\ t.tree_data[id].data.depth = DataOf(t, t.tree_data[id].parent_id).depth + 1

\* The tree obtained from a fresh one by inserting the nodes of `shape` parent
\* first, each once, at the slot and with the ident it has in `shape`.
RECURSIVE BuildChildren(_, _, _, _)
RECURSIVE BuildQueue(_, _, _)
BuildChildren(acc, shape, parent_id, i) ==
    IF i > Len(ChildrenOf(shape, parent_id)) THEN acc
    ELSE LET c == ChildrenOf(shape, parent_id)[i]
         IN  IF c = None THEN BuildChildren(acc, shape, parent_id, i + 1)
             ELSE BuildChildren(
                      Insert(acc, parent_id, c, i - 1, shape.tree_data[c].data.ident).tree,
                      shape, parent_id, i + 1)

BuildQueue(acc, shape, queue) ==
    IF queue = << >> THEN acc
    ELSE BuildQueue(BuildChildren(acc, shape, Head(queue), 1), shape,
                    Tail(queue) \o Flatten(ChildrenOf(shape, Head(queue))))

BuiltFromScratch(shape) == BuildQueue(NewTree(shape.root), shape, << shape.root >>)

(* ------------------------------ claims --------------------------------- *)

\* C1: after every insert that returned (Ok or an error) and every remove,
\* each non-root node's cached depth is its parent's cached depth plus one and
\* the root's depth is 0.
C1_DepthIsParentPlusOne == how = Returned => DepthConsistent(tree)

\* C1 witness: a widget that has a child was moved from the root to another
\* widget, so its child now sits at depth 3.
C1_Witness ==
    /\ how = Returned /\ last.op = "insert" /\ last.result = "Ok"
    /\ last.old_parent_id = RootId
    /\ last.parent_id # RootId
    /\ \E c \in DOMAIN tree.tree_data :
          /\ tree.tree_data[c].parent_id = last.widget_id
          /\ tree.tree_data[c].data.depth = 3

\* C2: after any sequence of insert and remove calls, re-inserting a widget
\* under itself or under one of its descendants included, following parent
\* links from every node reaches the root: the tree has no cycle.
C2_NoCycles ==
    \A id \in DOMAIN tree.tree_data :
        ReachesRoot(tree, id, Cardinality(DOMAIN tree.tree_data))

\* C3: after any sequence of calls that returned, every non-root node occupies
\* exactly one child slot, that slot is in the list of its recorded parent, and
\* every occupied slot holds an id that is a key of the table.
C3_ExactlyOneSlot ==
    how = Returned =>
        /\ \A id \in DOMAIN tree.tree_data :
              /\ Cardinality(SlotsOf(tree, id)) = 1
              /\ \A sl \in SlotsOf(tree, id) : sl[1] = tree.tree_data[id].parent_id
        /\ \A p \in IdsOf(tree) : \A i \in 1..Len(ChildrenOf(tree, p)) :
              ChildrenOf(tree, p)[i] # None => ChildrenOf(tree, p)[i] \in DOMAIN tree.tree_data

\* C3 witness: a widget of the tree was moved from one widget to a slot of
\* another, and the slot's occupant was evicted.
C3_Witness ==
    /\ how = Returned /\ last.op = "insert" /\ last.result = "Ok"
    /\ last.old_parent_id \notin {None, last.parent_id}
    /\ last.removed # {}
    /\ last.widget_id \in DOMAIN tree.tree_data

\* C4 as stated: remove(x) of any node x in the tree (the root is one) leaves
\* parent(y) = WidgetNotFound for every y of the subtree that was rooted at x.
C4_RemoveDropsSubtree_Original ==
    [][ (last'.op = "remove" /\ last'.widget_id \in IdsOf(tree))
          => \A y \in SubtreeOf(tree, last'.widget_id) :
                Parent(tree', y) = Err("WidgetNotFound") ]_tree_vars

\* C4 (amended): remove(x) of a non-root node x in the tree leaves
\* parent(y) = WidgetNotFound for every y of the subtree that was rooted at x,
\* x included.
C4_RemoveDropsSubtree ==
    [][ (last'.op = "remove" /\ last'.widget_id \in DOMAIN tree.tree_data)
          => \A y \in SubtreeOf(tree, last'.widget_id) :
                Parent(tree', y) = Err("WidgetNotFound") ]_tree_vars

\* C4 witness: a remove took a node, its child and its grandchild out.
C4_Witness ==
    /\ last.op = "remove" /\ last.result = "Some"
    /\ Cardinality(last.removed) = 3
    /\ DOMAIN tree.tree_data = {}

\* C5: when insert targets a slot of parent that holds another widget X, the
\* call returns Ok, id holds that slot afterwards, and X and its descendants
\* (those inside the moved widget's subtree excepted) are gone.
C5_OccupantEvicted ==
    [][ ( /\ last'.op = "insert"
          /\ last'.widget_id # tree.root
          /\ HasNode(tree, last'.parent_id)
          /\ \E X \in WidgetIds \ {last'.widget_id} :
                 ChildIndex(tree, last'.parent_id, last'.child_index) = Ok(X) )
        => LET X == ChildIndex(tree, last'.parent_id, last'.child_index).ok
           IN  /\ last'.result = "Ok"
               /\ ChildIndex(tree', last'.parent_id, last'.child_index) = Ok(last'.widget_id)
               /\ \A y \in SubtreeOf(tree, X) \ SubtreeOf(tree, last'.widget_id) :
                     y \notin IdsOf(tree') ]_tree_vars

\* C6: re-inserting a widget W of the tree under a parent outside W's subtree
\* keeps every descendant of W under the same parent, with the same ident, at
\* the same child position, leaves all depths right, and gives a tree equal to
\* the one built from scratch in the final shape.
C6_MoveKeepsSubtree ==
    [][ ( /\ last'.op = "insert"
          /\ last'.widget_id \in DOMAIN tree.tree_data
          /\ HasNode(tree, last'.parent_id)
          /\ last'.parent_id \notin SubtreeOf(tree, last'.widget_id) )
        => /\ last'.result = "Ok"
           /\ \A y \in SubtreeOf(tree, last'.widget_id) \ {last'.widget_id} :
                 /\ y \in DOMAIN tree'.tree_data
                 /\ tree'.tree_data[y].parent_id = tree.tree_data[y].parent_id
                 /\ tree'.tree_data[y].data.ident = tree.tree_data[y].data.ident
                 /\ SlotsOf(tree', y) = SlotsOf(tree, y)
           /\ DepthConsistent(tree')
           /\ tree' = BuiltFromScratch(tree') ]_tree_vars

\* C7: an insert that returned Ok, applied again with the same arguments,
\* returns Ok and leaves the tree as the first application left it.
C7_InsertIdempotent ==
    (how = Returned /\ last.op = "insert" /\ last.result = "Ok")
        => LET again == Insert(tree, last.parent_id, last.widget_id,
                               last.child_index, last.ident)
           IN  again.how = Returned /\ again.result = "Ok" /\ again.tree = tree

\* C8: insert returns WidgetIsRoot when the id is the root's, whatever the
\* parent, and ParentNotInTree when the parent is neither the root nor in the
\* table; in both cases the tree is the tree before the call.
C8_InsertErrors ==
    [][ last'.op = "insert"
          => /\ last'.widget_id = tree.root => last'.result = "WidgetIsRoot"
             /\ (last'.widget_id # tree.root /\ ~HasNode(tree, last'.parent_id))
                    => last'.result = "ParentNotInTree"
             /\ last'.result \in {"WidgetIsRoot", "ParentNotInTree"}
                    => (tree' = tree /\ how' = Returned) ]_tree_vars

\* C8 witness: the root's id was inserted under a parent that is not in a
\* non-empty tree.
C8_Witness ==
    /\ last.op = "insert" /\ last.result = "WidgetIsRoot"
    /\ last.widget_id = RootId
    /\ ~HasNode(tree, last.parent_id)
    /\ DOMAIN tree.tree_data # {}

\* C9: after insert(parent, id, index, ident) returned Ok, child_index(parent,
\* index) is id, parent(id) is parent, the node's ident is ident, and every
\* slot below index that the call added to the list is empty: child_index
\* answers RelationNotFound for it.
C9_InsertPostcondition ==
    [][ (last'.op = "insert" /\ last'.result = "Ok")
          => /\ ChildIndex(tree', last'.parent_id, last'.child_index) = Ok(last'.widget_id)
             /\ Parent(tree', last'.widget_id) = Ok(last'.parent_id)
             /\ DataOf(tree', last'.widget_id).ident = last'.ident
             /\ \A j \in Len(ChildrenOf(tree, last'.parent_id))..(last'.child_index - 1) :
                   ChildIndex(tree', last'.parent_id, j) = Err("RelationNotFound") ]_tree_vars

\* C9 witness: a widget of the tree was moved, with an ident other than the
\* one it had, to index 1 of a widget whose list was empty.
C9_Witness ==
    /\ last.op = "insert" /\ last.result = "Ok"
    /\ last.child_index = 1 /\ last.pre_len = 0
    /\ last.old_parent_id \notin {None, last.parent_id}
    /\ last.ident # last.old_ident

\* C10: after every insert and every remove that returned, no node's child
\* slot list ends with an empty placeholder.
C10_NoTrailingEmptySlot ==
    how = Returned =>
        \A p \in IdsOf(tree) :
            LET children == ChildrenOf(tree, p)
            IN  Len(children) = 0 \/ children[Len(children)] # None


\* C11: inserting an id that is not in the tree at an index at or beyond the end
\* of the parent's child list and then removing that id gives back a tree equal
\* to the one before the insert.
C11_InsertRemoveRoundTrip ==
    [][ ( /\ last'.op = "insert"
          /\ last'.result = "Ok"
          /\ how' = Returned
          /\ last'.widget_id \notin IdsOf(tree)
          /\ last'.child_index >= last'.pre_len )
        => Remove(tree', last'.widget_id).tree = tree ]_tree_vars

\* The number of siblings sharing id's parent, id included (1 for the root).
SiblingCount(t, id) ==
    IF id \in DOMAIN t.tree_data /\ HasNode(t, t.tree_data[id].parent_id)
    THEN Len(Flatten(ChildrenOf(t, t.tree_data[id].parent_id)))
    ELSE 1

\* C12: for every id in the tree and every integer k, sibling_wrapping(id, k)
\* returns a widget id, never none, and sibling_wrapping(id, k + n) equals
\* sibling_wrapping(id, k), n being the number of siblings sharing id's parent
\* (id included); empty placeholder slots in the parent's list change nothing.
C12_SiblingWrappingPeriodic ==
    how = Returned =>
        \A id \in IdsOf(tree), k \in Offsets :
            /\ SiblingWrapping(tree, id, k) \notin {Nothing, Panic}
            /\ SiblingWrapping(tree, id, k + SiblingCount(tree, id))
                  = SiblingWrapping(tree, id, k)

\* C13: for every id in the tree, the root included, sibling(id, 0) is Ok(id)
\* and sibling_wrapping(id, 0) is Some(id).
C13_ZeroOffsetIsSelf ==
    how = Returned =>
        \A id \in IdsOf(tree) :
            /\ Sibling(tree, id, 0) = Ok(id)
            /\ SiblingWrapping(tree, id, 0) = Some(id)

\* C13 on a tree where a non-root widget sits behind an empty slot and the
\* root and two widgets answer the zero offset.
C13_Witness ==
    /\ how = Returned
    /\ Cardinality(DOMAIN tree.tree_data) >= 2
    /\ \E id \in DOMAIN tree.tree_data :
          /\ ChildrenOf(tree, tree.tree_data[id].parent_id) = << None, id >>
          /\ Sibling(tree, id, 0) = Ok(id)
          /\ SiblingWrapping(tree, id, 0) = Some(id)
    /\ Sibling(tree, tree.root, 0) = Ok(tree.root)

\* C14: parent(root) is RelationNotFound, sibling(root, k) is RelationNotFound
\* for every k other than 0, and sibling_wrapping(root, k) is the root for
\* every k.
C14_RootRelations ==
    how = Returned =>
        /\ Parent(tree, tree.root) = Err("RelationNotFound")
        /\ \A k \in Offsets \ {0} : Sibling(tree, tree.root, k) = Err("RelationNotFound")
        /\ \A k \in Offsets : SiblingWrapping(tree, tree.root, k) = Some(tree.root)

\* C14 on a tree whose root has two children.
C14_Witness ==
    /\ how = Returned
    /\ Len(Flatten(tree.root_children)) = 2
    /\ Sibling(tree, tree.root, 1) = Err("RelationNotFound")
    /\ SiblingWrapping(tree, tree.root, 0 - 1) = Some(tree.root)

\* An id no call ever inserts.
UnknownId == NumWidgets + 1

\* The 0-based slot sibling(id, k) lands on.
LandingSlot(t, id, k) ==
    find_index(ChildrenOf(t, t.tree_data[id].parent_id), id) - 1 + k

\* The 0-based slot `slot` of the list is past either end or empty.
NoWidgetAt(children, slot) ==
    slot < 0 \/ slot >= Len(children) \/ children[slot + 1] = None

\* C15: for an id that is not in the tree, parent, sibling (any offset, 0
\* included), child_index and child_ident return WidgetNotFound, and
\* sibling_wrapping and path_reversed return none. For an id in the tree,
\* sibling landing before the first slot, past the last slot or on an empty
\* slot, and child_index given an out-of-range or empty slot, return
\* RelationNotFound. None of these calls panics.
C15_QueryErrors ==
    how = Returned =>
        /\ \A id \in (AllIds \cup {UnknownId}) \ IdsOf(tree) :
              /\ Parent(tree, id) = Err("WidgetNotFound")
              /\ \A k \in Offsets : Sibling(tree, id, k) = Err("WidgetNotFound")
              /\ \A n \in 0..(MaxIndex + 1) : ChildIndex(tree, id, n) = Err("WidgetNotFound")
              /\ \A ident \in AllIds : ChildIdent(tree, id, ident) = Err("WidgetNotFound")
              /\ \A k \in Offsets : SiblingWrapping(tree, id, k) = Nothing
              /\ PathReversed(tree, id) = Nothing
        /\ \A id \in DOMAIN tree.tree_data, k \in Offsets :
              NoWidgetAt(ChildrenOf(tree, tree.tree_data[id].parent_id),
                         LandingSlot(tree, id, k))
                 => Sibling(tree, id, k) = Err("RelationNotFound")
        /\ \A id \in IdsOf(tree), n \in 0..(MaxIndex + 1) :
              NoWidgetAt(ChildrenOf(tree, id), n)
                 => ChildIndex(tree, id, n) = Err("RelationNotFound")
        /\ \A id \in AllIds \cup {UnknownId} :
              /\ \A k \in Offsets :
                    Sibling(tree, id, k) # Panic /\ SiblingWrapping(tree, id, k) # Panic
              /\ \A ident \in AllIds : ChildIdent(tree, id, ident) # Panic

\* C15 on a tree where an id was removed and is asked for, and where a widget
\* behind an empty slot is asked for the sibling before it (an empty slot), two
\* before it (before the first slot) and after it (past the last slot).
C15_Witness ==
    /\ how = Returned
    /\ last.op = "remove" /\ last.result = "Some"
    /\ Sibling(tree, last.widget_id, 0) = Err("WidgetNotFound")
    /\ \E id \in DOMAIN tree.tree_data :
          /\ ChildrenOf(tree, tree.tree_data[id].parent_id) = << None, id >>
          /\ Sibling(tree, id, 0 - 1) = Err("RelationNotFound")
          /\ Sibling(tree, id, 0 - 2) = Err("RelationNotFound")
          /\ Sibling(tree, id, 1) = Err("RelationNotFound")
          /\ ChildIndex(tree, tree.tree_data[id].parent_id, 0) = Err("RelationNotFound")
          /\ ChildIndex(tree, tree.tree_data[id].parent_id, 2) = Err("RelationNotFound")

\* C16: for every id in the tree, path_reversed(id) yields a finite sequence
\* that starts at id, in which each next item is the parent of the previous
\* one and the last item is the root; the number of items is the reported
\* length, which is depth(id) + 1.
C16_PathReversed ==
    how = Returned =>
        \A id \in IdsOf(tree) :
            LET path == PathReversed(tree, id).some
            IN  /\ PathReversed(tree, id) # Nothing
                /\ path.finished
                /\ Len(path.items) >= 1
                /\ path.items[1].id = id
                /\ \A i \in 1..(Len(path.items) - 1) :
                      Parent(tree, path.items[i].id) = Ok(path.items[i + 1].id)
                /\ path.items[Len(path.items)].id = tree.root
                /\ Len(path.items) = path.len
                /\ path.len = DataOf(tree, id).depth + 1

\* C16 on a path of four items.
C16_Witness ==
    /\ how = Returned
    /\ \E id \in DOMAIN tree.tree_data :
          /\ PathReversed(tree, id) # Nothing
          /\ PathReversed(tree, id).some.len = 4
          /\ Len(PathReversed(tree, id).some.items) = 4
          /\ PathReversed(tree, id).some.items[4].id = tree.root

\* C17: remove(id) for an id that is not a key of the table (an unknown id, an
\* id already removed, or the root) returns none and leaves the whole tree
\* unchanged.
C17_RemoveAbsent ==
    [][ (last'.op = "remove" /\ last'.widget_id \notin DOMAIN tree.tree_data)
          => /\ last'.result = "None"
             /\ how' = Returned
             /\ tree' = tree ]_tree_vars

\* C17 after remove(root) on a tree that holds two widgets.
C17_Witness ==
    /\ last.op = "remove" /\ last.widget_id = RootId /\ last.result = "None"
    /\ how = Returned
    /\ Cardinality(DOMAIN tree.tree_data) >= 2

C19_ActionsOncePerOp ==
    [][ /\ actions' = produced'
        /\ inputs'.op = "drain" => (inputs'.drained = produced /\ actions' = << >>)
      ]_vars

\* C19 after a drain that returned two different actions, the later one first
\* in value order, carried by the ops of two events.
C19_Witness ==
    /\ inputs.op = "drain"
    /\ inputs.drained = << 2, 1 >>
    /\ actions = << >>
    /\ Len(delivered) >= 2

\* C20: with the root rect (0, 0, 500, 500) containing left, which contains tl
\* and bl, and no widget hovered before: the pass for a mouse move to a point
\* inside tl delivers MouseEnter to tl and then MouseMove to tl with
\* in_widget = true; the pass for a following move to a point outside all
\* children but inside the root delivers MouseExit to tl; later moves there
\* are delivered to the root.
C20_HoverScenario ==
    ( /\ pc = "idle" /\ event_queue = << >> /\ inputs.op = "dispatch"
      /\ input_state.mouse_hover_widget = Nothing )
    => /\ inputs.last = Some(WindowMouseMove(InTl))
            => \E i, j \in 1..Len(delivered) :
                  /\ i < j
                  /\ delivered[i] = [widget |-> tl, event |-> MouseEnter]
                  /\ delivered[j].widget = tl
                  /\ delivered[j].event.kind = "MouseMove"
                  /\ delivered[j].event.in_widget
       /\ ( /\ inputs.prev = Some(WindowMouseMove(InTl))
            /\ inputs.last = Some(WindowMouseMove(InRoot)) )
            => \E i \in 1..Len(delivered) :
                  delivered[i] = [widget |-> tl, event |-> MouseExit]
       /\ ( /\ inputs.prev = Some(WindowMouseMove(InRoot))
            /\ inputs.last = Some(WindowMouseMove(InRoot)) )
            => \E i \in 1..Len(delivered) :
                  /\ delivered[i].widget = root_widget
                  /\ delivered[i].event.kind = "MouseMove"

\* The entry queue_event makes for a widget and an event.
Queued(widget_id, event) ==
    [destination |-> widget_id, bubble_source |-> None, event |-> event]

\* The state a call of translate_window_event for the window event leaves, up
\* to the next call of the translator.
JustTranslated(window_event) ==
    inputs.op = "translate" /\ inputs.last = Some(window_event)

\* C21: with a known mouse position and a hover target, a MouseDown followed
\* by a MouseUp for the same button with no move in between queues a MouseDown
\* event and then a MouseUp event with pressed_in_widget = true for the same
\* target widget, and the translation of the MouseUp completes normally.
C21_PressThenRelease ==
    \A b \in Buttons :
       ( /\ input_state.mouse_pos # Nothing
         /\ OldHoverWidget(tree, input_state) # Nothing )
       => LET pos == input_state.mouse_pos.some
              target == OldHoverWidget(tree, input_state).some
          IN  /\ JustTranslated(WindowMouseDown(b))
                    => /\ how = Returned
                       /\ event_queue # << >>
                       /\ event_queue[Len(event_queue)]
                             = Queued(target, MouseDown(pos, TRUE, b))
              /\ ( /\ JustTranslated(WindowMouseUp(b))
                   /\ inputs.prev = Some(WindowMouseDown(b)) )
                    => /\ how = Returned
                       /\ event_queue # << >>
                       /\ event_queue[Len(event_queue)]
                             = Queued(target, MouseUp(pos, pos, TRUE, TRUE, b))

\* A step that is one call of translate_window_event for the window event.
Translates(window_event) ==
    /\ pc = "idle" /\ pc' = "idle"
    /\ inputs'.op = "translate" /\ inputs'.last = Some(window_event)
    /\ input_state.focused_widget = input_state'.focused_widget

\* The queue after the step is the queue before it with these entries added.
QueuedMore(entries) == event_queue' = event_queue \o entries

\* C22: a MouseMove with no tracked hover widget queues exactly two events for
\* the root when the new position is inside the root, MouseEnter first and
\* MouseMove second, and nothing when it is outside; with a tracked hover
\* widget that resolves it queues exactly one MouseMove, addressed to that
\* widget with no bubble source.
C22_MouseMoveQueues ==
    [][ \A p \in Points :
          Translates(WindowMouseMove(p))
          => LET old_pos == IF input_state.mouse_pos = Nothing THEN p
                            ELSE input_state.mouse_pos.some
                 move == MouseMove(old_pos, p, TRUE)
             IN  /\ ( /\ input_state.mouse_hover_widget = Nothing
                      /\ Contains(Rect(root_widget), p) )
                       => QueuedMore(<< Queued(root_widget, MouseEnter),
                                        Queued(root_widget, move) >>)
                 /\ ( /\ input_state.mouse_hover_widget = Nothing
                      /\ ~Contains(Rect(root_widget), p) )
                       => QueuedMore(<< >>)
                 /\ OldHoverWidget(tree, input_state) # Nothing
                       => QueuedMore(<< Queued(input_state.mouse_hover_widget.some,
                                               move) >>)
      ]_vars

\* C22 after a move into the root with no hover widget, the position known
\* from an earlier move, and the two events queued for the root.
C22_Witness ==
    /\ JustTranslated(WindowMouseMove(InRoot))
    /\ inputs.prev = Some(WindowMouseMove(InTl))
    /\ input_state.mouse_hover_widget = Nothing
    /\ event_queue = << Queued(root_widget, MouseEnter),
                        Queued(root_widget, MouseMove(InTl, InRoot, TRUE)) >>

\* The button is in the held set of the InputState.
Held(is, b) == \E d \in is.mouse_buttons_down : d.button = b

\* C23: MouseDown with a known mouse position records the button with the
\* current position in the held set and queues a MouseDown for the hover
\* target; with no known position it records and queues nothing.  MouseUp for
\* a button that is not held queues nothing and leaves the held set as it is;
\* for a held button it queues a MouseUp that carries the recorded down
\* position and takes the button out of the held set.
C23_ButtonsHeld ==
    [][ \A b \in Buttons :
          /\ Translates(WindowMouseDown(b))
              => IF input_state.mouse_pos # Nothing
                 THEN LET pos == input_state.mouse_pos.some
                      IN  /\ [button |-> b, down_pos |-> pos]
                                \in input_state'.mouse_buttons_down
                          /\ OldHoverWidget(tree, input_state) # Nothing
                                => QueuedMore(<< Queued(
                                       OldHoverWidget(tree, input_state).some,
                                       MouseDown(pos, TRUE, b)) >>)
                 ELSE /\ input_state'.mouse_buttons_down = {}
                      /\ QueuedMore(<< >>)
          /\ Translates(WindowMouseUp(b))
              => IF ~Held(input_state, b)
                 THEN /\ QueuedMore(<< >>)
                      /\ input_state'.mouse_buttons_down
                            = input_state.mouse_buttons_down
                 ELSE /\ ~Held(input_state', b)
                      /\ OldHoverWidget(tree, input_state) # Nothing
                            => /\ Len(event_queue') = Len(event_queue) + 1
                               /\ LET e == event_queue'[Len(event_queue')]
                                  IN  /\ e.destination
                                            = OldHoverWidget(tree, input_state).some
                                      /\ e.event.kind = "MouseUp"
                                      /\ e.event.button = b
                                      /\ [button |-> b, down_pos |-> e.event.down_pos]
                                            \in input_state.mouse_buttons_down
      ]_vars

\* C24: MouseExit queues a MouseExit for the currently hovered widget if there
\* is one, and clears the tracked mouse position if and only if no mouse
\* button is held; while any button is held the position is kept.
C24_MouseExit ==
    [][ Translates(WindowMouseExit)
        => /\ OldHoverWidget(tree, input_state) # Nothing
                => QueuedMore(<< Queued(input_state.mouse_hover_widget.some,
                                        MouseExit) >>)
           /\ input_state.mouse_hover_widget = Nothing => QueuedMore(<< >>)
           /\ input_state.mouse_buttons_down = {}
                => input_state'.mouse_pos = Nothing
           /\ input_state.mouse_buttons_down # {}
                => /\ input_state'.mouse_pos = input_state.mouse_pos
                   /\ input_state'.mouse_pos # Nothing
           /\ how' = Returned
      ]_vars

\* C24 after a MouseExit with a button held: the position it went down at is
\* still the tracked position and the hovered widget has its MouseExit queued.
C24_Witness ==
    /\ JustTranslated(WindowMouseExit)
    /\ input_state.mouse_buttons_down = {[button |-> "Left", down_pos |-> InTl]}
    /\ input_state.mouse_pos = Some(InTl)
    /\ event_queue # << >>
    /\ event_queue[Len(event_queue)] = Queued(tl, MouseExit)

\* How often the key occurs in a list of held keys.
Occurrences(keys, k) == Cardinality({i \in 1..Len(keys) : keys[i] = k})

\* C25: KeyDown for a key already tracked as held queues no event and changes
\* no state; for a key not held it adds the key to the held set, which never
\* holds a key twice, and queues one KeyDown addressed to the focused widget,
\* or to a universal fallthrough target when no widget is focused.
C25_KeyDown ==
    [][ \A k \in Keys :
          Translates(WindowKeyDown(k))
          => IF Occurrences(input_state.keys_down, k) > 0
             THEN /\ QueuedMore(<< >>)
                  /\ input_state' = input_state
                  /\ how' = Returned
             ELSE /\ Occurrences(input_state'.keys_down, k) = 1
                  /\ how' = Returned
                  /\ Len(event_queue') = Len(event_queue) + 1
                  /\ LET e == event_queue'[Len(event_queue')]
                     IN  /\ e.event = KeyDown(k, input_state.modifiers)
                         /\ input_state.focused_widget # Nothing
                               => e.destination = input_state.focused_widget.some
      ]_vars

\* The step adds a KeyUp event for the key at the end of the queue.
QueuesKeyUp(k) ==
    /\ Len(event_queue') > Len(event_queue)
    /\ event_queue'[Len(event_queue')].event.kind = "KeyUp"
    /\ event_queue'[Len(event_queue')].event.key = k

\* C26: KeyUp queues a KeyUp event only if the key is tracked as held, and
\* afterwards the key is no longer tracked; KeyUp for an untracked key queues
\* nothing and leaves the held set as it is.  So every KeyUp event queued
\* follows a KeyDown input for the same key with no KeyUp input for that key
\* in between.
C26_KeyUp ==
    [][ \A k \in Keys :
          /\ Translates(WindowKeyUp(k))
              => /\ Occurrences(input_state'.keys_down, k) = 0
                 /\ IF Occurrences(input_state.keys_down, k) > 0
                    THEN \/ QueuedMore(<< >>)
                         \/ \E w \in AllIds \cup LiveIds \cup {GoneId} :
                               QueuedMore(<< Queued(w, KeyUp(k, input_state.modifiers)) >>)
                    ELSE /\ QueuedMore(<< >>)
                         /\ input_state'.keys_down = input_state.keys_down
          /\ QueuesKeyUp(k)
              => /\ Translates(WindowKeyUp(k))
                 /\ k \in inputs.keys_pressed
      ]_vars

\* C26 after the KeyUp of a key that went down before another key that is
\* still held: the KeyUp is queued for the focused widget and only the other
\* key is tracked.
C26_Witness ==
    /\ JustTranslated(WindowKeyUp("A"))
    /\ inputs.prev = Some(WindowKeyDown("B"))
    /\ input_state.keys_down = << "B" >>
    /\ event_queue # << >>
    /\ event_queue[Len(event_queue)] = Queued(left, KeyUp("A", {}))

\* The window events that are meant for the hover widget.
HoverInputs ==
    {WindowMouseMove(p) : p \in Points} \cup {WindowMouseExit}
        \cup {WindowMouseDown(b) : b \in Buttons}
        \cup {WindowMouseUp(b) : b \in Buttons}

\* The window events that are meant for the focused widget.
FocusInputs ==
    {WindowKeyDown(k) : k \in Keys} \cup {WindowKeyUp(k) : k \in Keys}
        \cup {WindowChar("a")}

\* C27: when the tracked hover or focus widget id can no longer be resolved,
\* the event meant for it is dropped: no widget receives an event for that
\* input, nothing is queued again for a retry, and no error or panic results.
C27_LostTargetDropped ==
    [][ /\ \A e \in HoverInputs :
             ( /\ Translates(e)
               /\ input_state.mouse_hover_widget # Nothing
               /\ OldHoverWidget(tree, input_state) = Nothing )
             => /\ \A i \in 1..Len(event_queue') :
                      i > Len(event_queue)
                      => move_to_widget_with_tree(tree, event_queue'[i].destination)
                            = Nothing
                /\ how' = Returned
        /\ \A e \in FocusInputs :
             ( /\ Translates(e)
               /\ input_state.focused_widget # Nothing
               /\ move_to_widget_with_tree(tree, input_state.focused_widget.some)
                     = Nothing )
             => /\ \A i \in 1..Len(event_queue') :
                      i > Len(event_queue)
                      => move_to_widget_with_tree(tree, event_queue'[i].destination)
                            = Nothing
                /\ how' = Returned
        /\ ( /\ pc = "dispatching" /\ pc' = "dispatching"
             /\ event_queue # << >>
             /\ event_queue' # event_queue
             /\ move_to_widget_with_tree(tree, Head(event_queue).destination)
                   = Nothing )
             => /\ delivered' = delivered
                /\ event_queue' = Tail(event_queue)
                /\ how' = Returned
      ]_vars

\* A step that is one call on the stack.
StackCalled(op) == stack_last'.turn # stack_last.turn /\ stack_last'.op = op

\* C28: after any sequence of try_push, pop and truncate the stack holds at
\* least the root frame; pop on a stack that holds only the root frame
\* returns nothing and leaves the frames, the ident path and the accumulated
\* offset as they were.
C28_RootFrameStays ==
    [][ /\ InUse' => /\ Len(nr_vec'.vec) >= 1
                     /\ nr_vec'.vec[1].node = root_widget
        /\ (StackCalled("pop") /\ Len(nr_vec.vec) = 1)
              => /\ stack_last'.result = Nothing
                 /\ nr_vec'.vec = nr_vec.vec
                 /\ nr_vec'.ident_vec = nr_vec.ident_vec
                 /\ nr_vec'.top_parent_offset = nr_vec.top_parent_offset
      ]_vars

\* C28 after a pop that returned nothing on a stack that had been pushed on
\* and unwound to its root frame before.
C28_Witness ==
    /\ stack_last.op = "pop"
    /\ stack_last.result = Nothing
    /\ Len(nr_vec.vec) = 1
    /\ nr_vec.ident_vec = << Num(0) >>
    /\ tags[root_widget].child

\* C29: whenever a frame is removed from the stack by pop, by truncate or
\* when the stack is dropped, and that frame's widget reports a pending
\* update, the frame directly below it is marked as having a child that needs
\* an update; across a truncate of several levels or a full unwind the mark
\* goes through every intermediate ancestor up to the frame that remains on
\* top (the root frame when the stack is dropped).
C29_UpdateMarksPropagate ==
    [][ LET n == Len(nr_vec.vec)
            m == Len(nr_vec'.vec)
            top == IF m = 0 THEN 1 ELSE m
        IN  m < n
            => \A i \in (top + 1)..n :
                  NeedsUpdate(tags[nr_vec.vec[i].node])
                  => \A j \in top..(i - 1) : tags'[nr_vec.vec[j].node].child
      ]_vars

\* C29 after a truncate from three frames to the root frame: only the widget
\* of the top frame had asked for an update, and both frames below it are
\* marked.
C29_Witness ==
    /\ stack_last.op = "truncate"
    /\ stack_last.len = 1
    /\ Len(nr_vec.vec) = 1
    /\ tags[tl] = [self |-> TRUE, child |-> FALSE]
    /\ tags[left] = [self |-> FALSE, child |-> TRUE]
    /\ tags[root_widget] = [self |-> FALSE, child |-> TRUE]
    /\ tags[bl] = NoUpdate
    /\ tags[right] = NoUpdate

\* The global minimum corner of a widget's rectangle: the minimum corners of
\* the widget's rect and of the rects of all its ancestors, added up.
RECURSIVE GlobalMin(_)
GlobalMin(w) ==
    IF w = root_widget THEN MinOf(Rect(w))
    ELSE VecAdd(MinOf(Rect(w)), GlobalMin(LiveParent(w)))

\* C30: every position a widget receives through
\* OffsetWidget::on_widget_event (the cursor position, the positional fields
\* of the event, the down positions of the held buttons) is the global value
\* minus the global minimum corner of that widget's rectangle.
C30_LocalPositions ==
    offset_view.op = "on_widget_event"
    => LET g == GlobalMin(offset_view.widget)
           sent == offset_view.event
           got == offset_view.received.event
           is == offset_view.input_state
           ris == offset_view.received.input_state
       IN  /\ is.mouse_pos = Nothing => ris.mouse_pos = Nothing
           /\ is.mouse_pos # Nothing
                 => ris.mouse_pos = Some(VecSub(is.mouse_pos.some, g))
           /\ ris.mouse_buttons_down
                 = {[button |-> d.button, down_pos |-> VecSub(d.down_pos, g)] :
                       d \in is.mouse_buttons_down}
           /\ \A d \in ris.mouse_buttons_down_in_widget :
                 \E o \in is.mouse_buttons_down :
                    d.button = o.button /\ d.down_pos = VecSub(o.down_pos, g)
           /\ got.kind = sent.kind
           /\ sent.kind = "MouseMove"
                 => /\ got.old_pos = VecSub(sent.old_pos, g)
                    /\ got.new_pos = VecSub(sent.new_pos, g)
           /\ sent.kind = "MouseDown" => got.pos = VecSub(sent.pos, g)
           /\ sent.kind = "MouseUp"
                 => /\ got.pos = VecSub(sent.pos, g)
                    /\ got.down_pos = VecSub(sent.down_pos, g)

\* C30 after tl, whose rectangle starts at (20, 20) of the window, was handed
\* a move from (50, 50) to (600, 600) with the left button held since (50, 50).
C30_Witness ==
    /\ offset_view.op = "on_widget_event"
    /\ offset_view.widget = tl
    /\ offset_view.event = MouseMove(InTl, Outside, TRUE)
    /\ offset_view.received.event = MouseMove(<< 30, 30 >>, << 580, 580 >>, TRUE)
    /\ offset_view.input_state.mouse_pos = Some(Outside)
    /\ offset_view.received.input_state.mouse_pos = Some(<< 580, 580 >>)
    /\ offset_view.received.input_state.mouse_buttons_down_in_widget
          = {[button |-> "Left", down_pos |-> << 30, 30 >>]}

\* The last call made through the view was `op` and it returned.
ViewCalled(op) == how = Returned /\ offset_view.op = op

\* C31: after set_rect(r) has returned, the wrapped widget holds r minus the
\* view's offset and rect() gives back exactly r; and rect() is always the
\* wrapped widget's rectangle plus the offset (each corner moved by the
\* offset, wherever that sum is an i32).
C31_SetRectRoundTrip ==
    /\ ViewCalled("set_rect") =>
          /\ widget_rects[view.widget] = BoxSub(offset_view.rect, view.offset)
          /\ ~BoxSubOverflows(offset_view.rect, view.offset) =>
                widget_rects[view.widget] =
                    << offset_view.rect[1] - view.offset[1],
                       offset_view.rect[2] - view.offset[2],
                       offset_view.rect[3] - view.offset[1],
                       offset_view.rect[4] - view.offset[2] >>
          /\ view_rect(view, widget_rects) = offset_view.rect
    /\ (view.widget \in DOMAIN widget_rects
          /\ ~BoxAddOverflows(widget_rects[view.widget], view.offset)) =>
          view_rect(view, widget_rects) =
              << widget_rects[view.widget][1] + view.offset[1],
                 widget_rects[view.widget][2] + view.offset[2],
                 widget_rects[view.widget][3] + view.offset[1],
                 widget_rects[view.widget][4] + view.offset[2] >>

\* set_rect has stored a rectangle through a view with an offset, in a build
\* where the difference wrapped around, and through the view of a child.
C31_Witness ==
    /\ ViewCalled("set_rect")
    /\ view.offset # << 0, 0 >>
    /\ \/ BoxSubOverflows(offset_view.rect, view.offset)
       \/ view.widget = tl

\* The clip `inner` lies within the clip `outer`; no clip rectangle is no
\* visible area.
ClipWithin(inner, outer) ==
    \/ inner = Nothing
    \/ /\ outer # Nothing
       /\ outer.some[1] <= inner.some[1] /\ outer.some[2] <= inner.some[2]
       /\ inner.some[3] <= outer.some[3] /\ inner.some[4] <= outer.some[4]

\* The OffsetWidget a child of the view in hand is to be wrapped in: the
\* view's offset plus the minimum corner of its widget's rectangle, and the
\* view's clip cut down to the view's rectangle.
RewrappedChild(child) ==
    [widget |-> child,
     offset |-> << wrapping_add(widget_rects[view.widget][1], view.offset[1]),
                   wrapping_add(widget_rects[view.widget][2], view.offset[2]) >>,
     clip |-> IF view.clip = Nothing THEN Nothing
              ELSE intersect_rect(view.clip.some, view_rect(view, widget_rects))]

\* C32 as stated: children() and children_mut() both hand the visitor every
\* child re-wrapped with the combined offset and the cut-down clip.
C32_BothRewrap ==
    (how = Returned /\ offset_view.op \in {"children", "children_mut"}) =>
        \A i \in DOMAIN offset_view.visited :
            /\ offset_view.visited[i].widget =
                   RewrappedChild(LiveChildren(view.widget)[i])
            /\ ClipWithin(offset_view.visited[i].widget.clip, view.clip)

\* C32, amended: children_mut() hands the visitor every child re-wrapped with
\* the parent's offset plus the parent's minimum corner and with the parent's
\* clip cut down to the parent's rectangle, so the child's clip lies within
\* the parent's, also for the view the visitor goes on with; children() hands
\* the visitor plain references to the children, with no offset and no clip.
C32_ChildrenMutRewraps ==
    /\ ViewCalled("children_mut") =>
          \A i \in DOMAIN offset_view.visited :
              /\ offset_view.visited[i].widget =
                     RewrappedChild(LiveChildren(view.widget)[i])
              /\ ClipWithin(offset_view.visited[i].widget.clip, view.clip)
    /\ ViewCalled("visit") => ClipWithin(view.clip, offset_view.parent.clip)
    /\ ViewCalled("children") =>
          \A i \in DOMAIN offset_view.visited :
              offset_view.visited[i].widget = [widget |-> LiveChildren(view.widget)[i]]

\* children_mut has handed out the children of `left`, which sits away from
\* the window's corner, with a clip cut down from the one `left` was given.
C32_Witness ==
    /\ ViewCalled("children_mut")
    /\ view.widget = left
    /\ Len(offset_view.visited) = 2
    /\ view.clip # Nothing
    /\ offset_view.visited[1].widget.clip \notin {Nothing, view.clip}
    /\ offset_view.visited[1].widget.offset \notin {<< 0, 0 >>, view.offset}

\* The visitor was called with `visited`, in this order, and answers Break on
\* the calls whose number is in `breaks`, of `n` children: the calls went
\* through the children in index order from the first one, none was made
\* after a call that was answered with Break, and the calls went on until
\* one was or no child was left.
InOrderUntilBreak(visited, breaks, n) ==
    /\ \A i \in DOMAIN visited : visited[i].index = i - 1
    /\ \A i \in 1..(Len(visited) - 1) : i \notin breaks
    /\ Len(visited) <= n
    /\ Len(visited) < n => Len(visited) \in breaks

\* C33: a SingleContainer, a Vec, a derived container and an offset view
\* (children and children_mut) call the visitor on the children in increasing
\* index order and never again once it has answered Break.
C33_VisitsInOrderUntilBreak ==
    /\ container_last.op = "framed_children" =>
          /\ InOrderUntilBreak(container_last.visited, container_last.breaks,
                               num_children(container))
          /\ \A i \in DOMAIN container_last.visited :
                container_last.visited[i] = framed_children(container, Calls({}))[i]
    /\ offset_view.op \in {"children", "children_mut"} =>
          /\ InOrderUntilBreak(offset_view.visited, offset_view.breaks,
                               Len(LiveChildren(view.widget)))
          /\ \A i \in DOMAIN offset_view.visited :
                offset_view.visited[i].ident = Str(NameOf(LiveChildren(view.widget)[i]))

\* A derived container with a collection field was visited and the visitor
\* answered Break inside the collection, before the last child; an offset
\* view's visitor answered Break on its first child.
C33_Witness ==
    /\ container.shape = "derived"
    /\ container_last.op = "framed_children"
    /\ num_children(container) = 4
    /\ Len(container_last.visited) = 3
    /\ container_last.breaks = {3, 4}
    /\ offset_view.op = "children_mut"
    /\ Len(offset_view.visited) = 1

\* C34: child_by_index(i) gives, for i below num_children, a child whose
\* index is i and whose ident, looked up with child(ident), gives the same
\* widget with the same index and ident, and gives none for any other i; a
\* traversal that is never cut short visits num_children children with the
\* indices 0 .. num_children - 1, and a SingleContainer's one child has ident
\* Num(0) and index 0.
C34_IndexAndIdentAgree ==
    /\ container_last.op = "framed_child_by_index" =>
          IF container_last.index < num_children(container)
          THEN /\ container_last.result # Nothing
               /\ container_last.result.some.index = container_last.index
               /\ framed_child(container, container_last.result.some.ident)
                      = container_last.result
          ELSE container_last.result = Nothing
    /\ (container_last.op = "framed_children" /\ container_last.breaks = {}) =>
          /\ Len(container_last.visited) = num_children(container)
          /\ \A i \in DOMAIN container_last.visited :
                container_last.visited[i].index = i - 1
          /\ container.shape = "single" =>
                container_last.visited = << WidgetInfo(Num(0), 0, container.widget) >>

\* child_by_index(3) has given the last widget of a derived container's
\* collection field, which comes after two plain fields.
C34_Witness ==
    /\ container_last.op = "framed_child_by_index"
    /\ container_last.index = 3
    /\ container_last.result = Some(WidgetInfo(StrCollection("buttons", 1), 3, right))

\* C35: after Group::update_layout the i-th child in container order has the
\* i-th rectangle the layout engine returned, or the 0xDEDBEEF sentinel if
\* the engine's i-th result was a solve failure; a failure for one child
\* leaves every other child with its own result.
C35_LayoutPerChild ==
    container_last.op = "update_layout" =>
        LET in_order == framed_children(container, Calls({}))
        IN  /\ Len(container_last.rects_vec) = num_children(container)
            /\ \A i \in 1..num_children(container) :
                  group_rects[in_order[i].widget] =
                      IF container_last.rects_vec[i] = Err("SolveError")
                      THEN << DEDBEEF, DEDBEEF, DEDBEEF, DEDBEEF >>
                      ELSE container_last.rects_vec[i].ok

\* The engine failed for the second of four children and solved the others,
\* the third and the fourth with different rectangles.
C35_Witness ==
    /\ container_last.op = "update_layout"
    /\ num_children(container) = 4
    /\ container_last.rects_vec =
           << Ok(<< 0, 0, 40, 20 >>), Err("SolveError"), Ok(<< 5, 30, 45, 50 >>),
              Ok(<< 0, 0, 40, 20 >>) >>
    /\ group_rects[bl] = << 5, 30, 45, 50 >>

\* The dispatch pass is at a MouseMove with no bubble source for a widget
\* whose rectangle holds the position and that has a child holding it too.
MoveOverChild ==
    /\ pc = "dispatching"
    /\ event_queue # << >>
    /\ Head(event_queue).event.kind = "MouseMove"
    /\ Head(event_queue).bubble_source = None
    /\ move_to_widget_with_tree(tree, Head(event_queue).destination) # Nothing
    /\ Contains(OffsetRect(Head(event_queue).destination), Head(event_queue).event.new_pos)
    /\ EnterChild(Head(event_queue).destination, Head(event_queue).event.new_pos) # None

\* C36: dispatching a MouseMove with no bubble source to a widget that holds
\* the position and has a child that holds it hands the widget the MouseMove
\* with in_widget = false and then queues, for the first such child, a
\* MouseEnter followed by a MouseMove.
C36_MoveDescends ==
    [][ (MoveOverChild /\ pc' = "dispatching" /\ event_queue' # event_queue) =>
            LET entry == Head(event_queue)
                enter_child == EnterChild(entry.destination, entry.event.new_pos)
            IN  /\ delivered' = delivered \o
                       << [widget |-> entry.destination,
                           event |-> MouseMove(entry.event.old_pos,
                                               entry.event.new_pos, FALSE)] >>
                /\ Len(event_queue') = Len(event_queue) + 1
                /\ SubSeq(event_queue', 1, Len(event_queue) - 1) = Tail(event_queue)
                /\ event_queue'[Len(event_queue)] = Queued(enter_child, MouseEnter)
                /\ event_queue'[Len(event_queue) + 1].destination = enter_child
                /\ event_queue'[Len(event_queue) + 1].event.kind = "MouseMove" ]_vars

\* C37: after any sequence of try_push, pop and truncate to a length from 1
\* to the number of frames, top_parent_offset is the sum of the minimum
\* corners recorded in the frames below the top frame, and the ident path has
\* one entry for each frame.
C37_OffsetIsSumBelowTop ==
    how = Returned =>
        /\ nr_vec.top_parent_offset =
               << SumOfMins(nr_vec.vec, Len(nr_vec.vec) - 1)[1],
                  SumOfMins(nr_vec.vec, Len(nr_vec.vec) - 1)[2] >>
        /\ \A i \in 1..(Len(nr_vec.vec) - 1) : nr_vec.vec[i].bounds = Rect(nr_vec.vec[i].node)
        /\ Len(nr_vec.ident_vec) = Len(nr_vec.vec)

\* truncate(3) on a stack of three frames has summed the offset up again from
\* the corners recorded for the root and for `left`, which is not at the
\* origin.
C37_Witness ==
    /\ how = Returned
    /\ stack_last.op = "truncate"
    /\ stack_last.len = 3
    /\ Len(nr_vec.vec) = 3
    /\ nr_vec.vec[2].node = left
    /\ nr_vec.top_parent_offset = << 10, 10 >>

\* C38: in every input state that translate_window_event makes from a new
\* one, a held button means the mouse position is known; so a MouseUp for a
\* held button gets past the test for a position.
C38_HeldMeansPositionKnown ==
    /\ input_state.mouse_buttons_down # {} => input_state.mouse_pos # Nothing
    /\ \A b \in Buttons :
          Held(input_state, b) =>
              TranslateMouseUp(tree, input_state, event_queue, b)
                  # Completed(input_state, event_queue)

\* The cursor has left the window with a button held: the position is kept.
C38_Witness ==
    /\ JustTranslated(WindowMouseExit)
    /\ Held(input_state, "Left")
    /\ input_state.mouse_pos = Some(Outside)

\* C39: remove(x) changes nothing outside the removed subtree except the child
\* list of x's parent: every node that is not x or a descendant of x is still
\* in the tree afterwards with the same parent, the same ident and the same
\* cached depth, and, unless it is x's parent, the same child list.
C39_RemoveFrame ==
    [][ (last'.op = "remove" /\ last'.widget_id \in DOMAIN tree.tree_data)
          => LET x == last'.widget_id
             IN  /\ how' = Returned
                 /\ tree'.root = tree.root
                 /\ \A y \in IdsOf(tree) \ SubtreeOf(tree, x) :
                       /\ HasNode(tree', y)
                       /\ DataOf(tree', y) = DataOf(tree, y)
                       /\ y # tree.root
                            => tree'.tree_data[y].parent_id = tree.tree_data[y].parent_id
                       /\ y # OldParent(tree, x)
                            => ChildrenOf(tree', y) = ChildrenOf(tree, y) ]_tree_vars

\* C39 after remove(left) on a tree where left had a child and a sibling after
\* it: the sibling and the root are still there, the subtree is gone.
C39_Witness ==
    /\ how = Returned /\ last.op = "remove" /\ last.result = "Some"
    /\ last.old_parent_id = RootId
    /\ Cardinality(last.removed) >= 2
    /\ \E y \in DOMAIN tree.tree_data :
          /\ tree.tree_data[y].parent_id = RootId
          /\ y \in {tree.root_children[i] : i \in 1..Len(tree.root_children)}

\* s is an initial part of t.
IsPrefix(s, t) == Len(s) <= Len(t) /\ s = SubSeq(t, 1, Len(s))

\* C40: dispatch_message invokes every fn registered for the message's key
\* exactly once, in registration order; fns registered for that key while the
\* dispatch runs are not invoked during it, and once it has returned the
\* key's list is the old fns followed by the new ones, none lost.
C40_DispatchInOrderKeepsNew ==
    /\ message_call.pc # "idle"
         => /\ IsPrefix(message_call.called, message_call.before)
            /\ Len(message_call.called) \in {message_call.next - 1, message_call.next}
    /\ (message_call.pc = "idle" /\ message_call.ended = "put back")
         => /\ message_call.called = message_call.before
            /\ message_call.after = message_call.before \o message_call.added

\* C40 after a dispatch over two fns during which a fn registered a third for
\* the same key.
C40_Witness ==
    /\ message_call.pc = "idle" /\ message_call.ended = "put back"
    /\ Len(message_call.before) >= 2
    /\ Len(message_call.added) >= 1

====
